---- MODULE Spec2Model ----
(***************************************************************************)
(* Model of the catalog-access core of elementum:                          *)
(*   - the provider dispatcher (providers: GetCallback, RemoveCallback,     *)
(*     CallbackHandler, AddonSearcher.call), src/tmdb/tmdb.go 696-1044;     *)
(*   - the Trakt cache-aside fetchers, src/trakt/movies.go and              *)
(*     src/unnamed/part_000;                                                *)
(*   - the watched-shows progress synchronizer, WatchedShowsProgress,       *)
(*     src/unnamed/part_000 688-772.                                        *)
(* Each subsystem has its own specification over the shared variables.      *)
(***************************************************************************)
EXTENDS Integers, Sequences, FiniteSets, TLC

(***************************************************************************)
(* Bounds.                                                                  *)
(***************************************************************************)
NumDispatch == 2
NumHandlers == 2
NumCids == 2
ProviderTimeout == 2
MaxTime == 3
NumLiveHandlers == 1

Dispatches == 1..NumDispatch
Handlers == 1..NumHandlers
CIDs == 1..NumCids
LiveHandlers == 1..NumLiveHandlers

\* Callback bodies posted by a provider: one that decodes into a list of
\* torrents, one that is not JSON, and a JSON list whose second element has a
\* field of the wrong type.
Bodies == {"[t1]", "garbage", "[t1,x]"}

NoBody == "none"

\* Mutant: the received body is dropped.
DecodeTorrentsDropped(body) == <<>>

\* Whether json.Unmarshal(result, &torrents) returns nil.
Decoded(body) == body = "[t1]"

\* json.Unmarshal(result, &torrents) in AddonSearcher.call: torrents starts as
\* an empty list and keeps that value when the body is not JSON; a value of
\* the wrong type is skipped and the rest is decoded as far as it goes, the
\* error being returned at the end.
DecodeTorrents(body) ==
  CASE body = "[t1]" -> <<"t1">>
    [] body = "[t1,x]" -> <<"t1", "x0">>
    [] OTHER -> <<>>

VARIABLES
  callbacks,   \* the registry: cid -> channel (the dispatch that made it), 0 = no entry
  chans,       \* chans[d]: the channel made by dispatch d: buffer (cap 1) and closed flag
  dpc,         \* position of each AddonSearcher.call invocation
  dcid,        \* the cid GetCallback gave the invocation (0 before)
  deadline,    \* the instant time.After(timeout) fires for the invocation
  received,    \* the body the select received from the channel
  torrents,    \* the list call returns (empty from line 1016 on)
  doneAt,      \* the instant call returned (-1 until then)
  via,         \* which select case call took: "none", "timeout", "result"
  hpc,         \* position of each CallbackHandler invocation
  hcid,        \* the cid of the request
  hch,         \* the channel the handler found in the registry (0 = none)
  sends,       \* number of sends completed into each channel
  closes,      \* number of close calls completed on each channel
  firstSend,   \* history: the first body sent into each channel, and whether the
               \* invocation had not yet taken the timeout case and the timeout
               \* had not yet elapsed at that moment (NoSend before)
  hlate,       \* history: the handler's lookup came after an invocation with the
               \* same cid had taken the timeout case and returned
  now          \* the clock

dvars == <<callbacks, chans, dpc, dcid, deadline, received, torrents, doneAt, via,
           hpc, hcid, hch, sends, closes, firstSend, hlate, now>>

VARIABLES
  focus,    \* the fetcher (and category) this behaviour exercises
  cache,    \* the cache store: key -> entry
  totals,   \* the cache store, total-count keys: category -> count (NoTotal = no entry)
  last,     \* the record of the latest call (or expiry)
  prev      \* the record of the call before it

fvars == <<focus, cache, totals, last, prev>>

VARIABLES
  ppc,             \* position of WatchedShowsProgress: "idle" or "running"
  lastWatchedAt,   \* show.LastWatchedAt of each show of watchedShows
  watchedAtCache,  \* cache, TraktWatchedShowsProgressWatchedKey: show -> time (0 = no entry)
  progressCache,   \* cache, TraktWatchedShowsProgressKey: show -> entry
  wg,              \* the shows whose goroutine has not called wg.Done()
  showsList,       \* showsList[idx]: the slot each goroutine fills
  upstreamCalls,   \* upstream progress calls made in this run, per show
  outcome,         \* how each goroutine of this run ended
  shows,           \* the list the last run returned
  lastErr,         \* the error the last invocation returned ("none" if none)
  expired,         \* the shows of which an entry expired since the last run
  lastRun,         \* the record of the last completed run
  prevRun,         \* the record of the run before it
  runs             \* the number of runs started

pvars == <<ppc, lastWatchedAt, watchedAtCache, progressCache, wg, showsList,
           upstreamCalls, outcome, shows, lastErr, expired, lastRun, prevRun, runs>>

VARIABLES
  lpc,            \* position of each MakeRequest invocation
  ret,            \* what the invocation returned ("none" before)
  requests,       \* upstream requests the invocation has made
  status,         \* the class of the last answer the invocation got
  cooled,         \* whether the invocation called rl.CoolDown
  delayed,        \* whether a cooldown was in force when the invocation began
  windowCount,    \* ThrottleState: functions started in the current window
  windowLeft,     \* ThrottleState: time left of the current window (0 = none open)
  coolDownLeft    \* ThrottleState: time left until the cooldown-until instant

lvars == <<lpc, ret, requests, status, cooled, delayed, windowCount, windowLeft, coolDownLeft>>

VARIABLES
  tpc,      \* position of the page translation: "idle", "done" or "panic"
  tpage,    \* pageInt, the client page strconv.Atoi returned
  tper,     \* resultsPerPage
  tup       \* the translated page

tvars == <<tpc, tpage, tper, tup>>

VARIABLES
  mcache,   \* the cache store, TMDB keys: <<fetcher, argument>> -> entry
  mlast     \* the record of the latest call of a TMDB fetcher (or expiry)

mvars == <<mcache, mlast>>

VARIABLES
  acache,   \* cache, TraktActivitiesKey: Episodes.WatchedAt (0 = no entry)
  lcache,   \* cache, TraktShowsWatchedKey: the watched list
  alast     \* the record of the latest start of WatchedShowsProgress

avars == <<acache, lcache, alast>>

VARIABLES
  ofn,       \* the fan-out function this behaviour exercises
  opc,       \* its position: "loop", "wait" or "returned"
  oi,        \* the loop variable i (the index of the next item)
  owg,       \* the WaitGroup counter
  otask,     \* each goroutine: "none", "started", "wrote" or "done"
  owriters   \* per result slot, the goroutines that have written it

ovars == <<ofn, opc, oi, owg, otask, owriters>>

VARIABLES
  xpc,      \* position of the show's goroutine in each of the concurrent runs
  xat,      \* show.LastWatchedAt as each run's watched list has it
  xsnap,    \* cache, the show's snapshot (0 = no entry)
  xprog,    \* cache, the show's progress
  xheld,    \* watchedProgressShow of each run's goroutine
  xcalls,   \* upstream progress calls of each run
  xwrote,   \* what each run last wrote under each of the two keys
  xlast     \* per key, the run that wrote it last (0 = none)

xvars == <<xpc, xat, xsnap, xprog, xheld, xcalls, xwrote, xlast>>

\* The variables of the subsystems other than the dispatcher, other than the
\* fetchers, other than the progress synchronizer, and other than the limiter.
VARIABLES
  kpc,      \* position of each task that touches the registry
  krole,    \* what the task runs: "call" (AddonSearcher.call) or "handler"
  kcid,     \* the cid the task works on (0 before)
  kfound,   \* the handler's ok of callbacks[cid]
  kmap,     \* the cids with an entry in callbacks
  kw,       \* the task holding cbLock for writing (0 = none)
  kr,       \* the tasks holding cbLock for reading
  kop       \* the latest operation on callbacks, and how its task held cbLock

kvars == <<kpc, krole, kcid, kfound, kmap, kw, kr, kop>>

VARIABLES
  ypc,       \* position of CheckAPIKey: "start", "loop", "done", "panic"
  apiKeys,   \* the key pool (package variable)
  apiKey,    \* the selected key (package variable)
  yindex,    \* the loop's index
  yresult,   \* the loop's result
  ypool,     \* history: the pool as it was when the loop started
  ychecks,   \* history: number of tmdbCheck calls
  yfailed,   \* history: the keys whose check failed
  yvalid,    \* the keys TMDB accepts
  ycooling,  \* whether rl is in its cooldown while CheckAPIKey runs
  yreq       \* history: the latest HTTP request of tmdbCheck

yvars == <<ypc, apiKeys, apiKey, yindex, yresult, ypool, ychecks, yfailed, yvalid,
           ycooling, yreq>>

notD == <<fvars, pvars, lvars, tvars, mvars, avars, ovars, xvars, kvars, yvars>>
notF == <<dvars, pvars, lvars, tvars, mvars, avars, ovars, xvars, kvars, yvars>>
notP == <<dvars, fvars, lvars, tvars, mvars, avars, ovars, xvars, kvars, yvars>>
notL == <<dvars, fvars, pvars, tvars, mvars, avars, ovars, xvars, kvars, yvars>>
notT == <<dvars, fvars, pvars, lvars, mvars, avars, ovars, xvars, kvars, yvars>>
notM == <<dvars, fvars, pvars, lvars, tvars, avars, ovars, xvars, kvars, yvars>>
notA == <<dvars, fvars, pvars, lvars, tvars, mvars, ovars, xvars, kvars, yvars>>
notO == <<dvars, fvars, pvars, lvars, tvars, mvars, avars, xvars, kvars, yvars>>
notX == <<dvars, fvars, pvars, lvars, tvars, mvars, avars, ovars, kvars, yvars>>
notK == <<dvars, fvars, pvars, lvars, tvars, mvars, avars, ovars, xvars, yvars>>
notY == <<dvars, fvars, pvars, lvars, tvars, mvars, avars, ovars, xvars, kvars>>

ChanCap == 1

EmptyChan == [buf |-> <<>>, closed |-> FALSE]

NoSend == [body |-> NoBody, inTime |-> FALSE]

DispatchInit ==
  /\ callbacks = [c \in CIDs |-> 0]
  /\ chans = [d \in Dispatches |-> EmptyChan]
  /\ dpc = [d \in Dispatches |-> "idle"]
  /\ dcid = [d \in Dispatches |-> 0]
  /\ deadline = [d \in Dispatches |-> 0]
  /\ received = [d \in Dispatches |-> NoBody]
  /\ torrents = [d \in Dispatches |-> <<>>]
  /\ doneAt = [d \in Dispatches |-> -1]
  /\ via = [d \in Dispatches |-> "none"]
  /\ hpc = [h \in Handlers |-> "idle"]
  /\ hcid = [h \in Handlers |-> 0]
  /\ hch = [h \in Handlers |-> 0]
  /\ sends = [d \in Dispatches |-> 0]
  /\ closes = [d \in Dispatches |-> 0]
  /\ firstSend = [d \in Dispatches |-> NoSend]
  /\ hlate = [h \in Handlers |-> FALSE]
  /\ now = 0

\* Mutant: the entry is left in the registry.
RemoveCallbackSkipped(cid) ==
  UNCHANGED callbacks

\* delete(callbacks, cid) under cbLock.
RemoveCallback(cid) ==
  callbacks' = [callbacks EXCEPT ![cid] = 0]

\* GetCallback, called first thing by AddonSearcher.call: a random cid, a fresh
\* channel of capacity 1, and callbacks[cid] = c under cbLock.  rand.Int() is
\* not checked against the registry, so any cid may come out.
GetCallback(d) ==
  /\ dpc[d] = "idle"
  /\ \E cid \in CIDs :
       /\ dcid' = [dcid EXCEPT ![d] = cid]
       /\ callbacks' = [callbacks EXCEPT ![cid] = d]
  /\ dpc' = [dpc EXCEPT ![d] = "registered"]
  /\ UNCHANGED <<notD, chans, deadline, received, torrents, doneAt, via,
                 hpc, hcid, hch, sends, closes, firstSend, hlate, now>>

\* xbmc.ExecuteAddon(as.addonID, payload.String()): the dispatch message, with
\* the callback URL that encodes the cid, leaves for the provider.
ExecuteAddon(d) ==
  /\ dpc[d] = "registered"
  /\ dpc' = [dpc EXCEPT ![d] = "executed"]
  /\ UNCHANGED <<notD, callbacks, chans, dcid, deadline, received, torrents, doneAt, via,
                 hpc, hcid, hch, sends, closes, firstSend, hlate, now>>

\* Entering the select: time.After(timeout) is armed now; a body already in the
\* channel's buffer is received at once (the fresh timer cannot be ready), a
\* closed and empty channel yields the zero value, otherwise the call parks on
\* both cases.
SelectEnter(d) ==
  /\ dpc[d] = "executed"
  /\ deadline' = [deadline EXCEPT ![d] = now + ProviderTimeout]
  /\ IF chans[d].buf # <<>>
       THEN /\ received' = [received EXCEPT ![d] = Head(chans[d].buf)]
            /\ chans' = [chans EXCEPT ![d].buf = Tail(@)]
            /\ via' = [via EXCEPT ![d] = "result"]
            /\ dpc' = [dpc EXCEPT ![d] = "gotResult"]
       ELSE IF chans[d].closed
         THEN /\ received' = [received EXCEPT ![d] = ""]
              /\ via' = [via EXCEPT ![d] = "result"]
              /\ dpc' = [dpc EXCEPT ![d] = "gotResult"]
              /\ UNCHANGED chans
         ELSE /\ dpc' = [dpc EXCEPT ![d] = "waiting"]
              /\ UNCHANGED <<received, chans, via>>
  /\ UNCHANGED <<notD, callbacks, dcid, torrents, doneAt, hpc, hcid, hch, sends, closes, firstSend, hlate, now>>

\* Mutant: the timer case is ready at once.
TimerReadyAtOnce(d) == TRUE

\* Mutant: the timer case never becomes ready.
TimerReadyNever(d) == FALSE

\* case <-time.After(timeout): ready only once the timeout has elapsed.
TimerReady(d) == now >= deadline[d]

TimerFire(d) ==
  /\ dpc[d] = "waiting"
  /\ TimerReady(d)
  /\ via' = [via EXCEPT ![d] = "timeout"]
  /\ dpc' = [dpc EXCEPT ![d] = "timedOut"]
  /\ UNCHANGED <<notD, callbacks, chans, dcid, deadline, received, torrents, doneAt,
                 hpc, hcid, hch, sends, closes, firstSend, hlate, now>>

\* The timeout case: log, RemoveCallback(cid), return the empty list.
TimeoutReturn(d) ==
  /\ dpc[d] = "timedOut"
  /\ RemoveCallback(dcid[d])
  /\ torrents' = [torrents EXCEPT ![d] = <<>>]
  /\ doneAt' = [doneAt EXCEPT ![d] = now]
  /\ dpc' = [dpc EXCEPT ![d] = "done"]
  /\ UNCHANGED <<notD, chans, dcid, deadline, received, via, hpc, hcid, hch, sends, closes, firstSend, hlate, now>>

\* The result case: decode the body; a decode failure is logged and the empty
\* list is returned.
ResultReturn(d) ==
  /\ dpc[d] = "gotResult"
  /\ torrents' = [torrents EXCEPT ![d] = DecodeTorrents(received[d])]
  /\ doneAt' = [doneAt EXCEPT ![d] = now]
  /\ dpc' = [dpc EXCEPT ![d] = "done"]
  /\ UNCHANGED <<notD, callbacks, chans, dcid, deadline, received, via,
                 hpc, hcid, hch, sends, closes, firstSend, hlate, now>>

\* CallbackHandler, lines 719-727: look the cid up under the read lock; return
\* when the registry has no entry.
HandlerFound(cid) == callbacks[cid] # 0

HandlerLookup(h) ==
  /\ hpc[h] = "idle"
  /\ \E cid \in CIDs :
       /\ hcid' = [hcid EXCEPT ![h] = cid]
       /\ IF HandlerFound(cid)
            THEN /\ hch' = [hch EXCEPT ![h] = callbacks[cid]]
                 /\ hpc' = [hpc EXCEPT ![h] = "found"]
            ELSE /\ hpc' = [hpc EXCEPT ![h] = "done"]
                 /\ UNCHANGED hch
       /\ hlate' = [hlate EXCEPT ![h] =
                      \E d \in Dispatches :
                        dcid[d] = cid /\ dpc[d] = "done" /\ via[d] = "timeout"]
  /\ UNCHANGED <<notD, callbacks, chans, dpc, dcid, deadline, received, torrents, doneAt, via,
                 sends, closes, firstSend, now>>

\* CallbackHandler, line 728: RemoveCallback(cid) under the write lock.
HandlerRemove(h) ==
  /\ hpc[h] = "found"
  /\ RemoveCallback(hcid[h])
  /\ hpc' = [hpc EXCEPT ![h] = "removed"]
  /\ UNCHANGED <<notD, chans, dpc, dcid, deadline, received, torrents, doneAt, via,
                 hcid, hch, sends, closes, firstSend, hlate, now>>

\* The body reaches the channel of invocation d before its timeout elapsed: d
\* has not reached the select yet, or is parked in it with the timer not due.
InTime(d) ==
  \/ dpc[d] \in {"registered", "executed"}
  \/ dpc[d] = "waiting" /\ now < deadline[d]

\* CallbackHandler, lines 729-730: read the body and send it.  A send on a
\* closed channel panics; a send to a parked receiver hands the body over and
\* decides its select; otherwise the body goes into the buffer, and the send
\* blocks while the buffer is full.
HandlerSend(h) ==
  /\ hpc[h] = "removed"
  /\ \E body \in Bodies :
       LET c == hch[h] IN
       IF chans[c].closed
         THEN /\ hpc' = [hpc EXCEPT ![h] = "panic"]
              /\ UNCHANGED <<chans, dpc, received, via, sends, firstSend>>
         ELSE /\ \/ dpc[c] = "waiting"
                 \/ Len(chans[c].buf) < ChanCap
              /\ IF dpc[c] = "waiting"
                   THEN /\ received' = [received EXCEPT ![c] = body]
                        /\ via' = [via EXCEPT ![c] = "result"]
                        /\ dpc' = [dpc EXCEPT ![c] = "gotResult"]
                        /\ UNCHANGED chans
                   ELSE /\ chans' = [chans EXCEPT ![c].buf = Append(@, body)]
                        /\ UNCHANGED <<received, via, dpc>>
              /\ sends' = [sends EXCEPT ![c] = @ + 1]
              /\ firstSend' = [firstSend EXCEPT ![c] =
                     IF @ = NoSend THEN [body |-> body, inTime |-> InTime(c)] ELSE @]
              /\ hpc' = [hpc EXCEPT ![h] = "sent"]
  /\ UNCHANGED <<notD, callbacks, dcid, deadline, torrents, doneAt, hcid, hch, closes, hlate, now>>

\* CallbackHandler, line 731: close(c).  Closing a closed channel panics;
\* closing wakes a receiver parked on an empty channel with the zero value.
HandlerClose(h) ==
  /\ hpc[h] = "sent"
  /\ LET c == hch[h] IN
       IF chans[c].closed
         THEN /\ hpc' = [hpc EXCEPT ![h] = "panic"]
              /\ UNCHANGED <<chans, closes, dpc, received, via>>
         ELSE /\ chans' = [chans EXCEPT ![c].closed = TRUE]
              /\ closes' = [closes EXCEPT ![c] = @ + 1]
              /\ hpc' = [hpc EXCEPT ![h] = "done"]
              /\ IF dpc[c] = "waiting" /\ chans[c].buf = <<>>
                   THEN /\ received' = [received EXCEPT ![c] = ""]
                        /\ via' = [via EXCEPT ![c] = "result"]
                        /\ dpc' = [dpc EXCEPT ![c] = "gotResult"]
                   ELSE UNCHANGED <<dpc, received, via>>
  /\ UNCHANGED <<notD, callbacks, dcid, deadline, torrents, doneAt, hcid, hch, sends,
                 firstSend, hlate, now>>

\* Time passes.
Tick ==
  /\ now < MaxTime
  /\ now' = now + 1
  /\ UNCHANGED <<notD, callbacks, chans, dpc, dcid, deadline, received, torrents, doneAt, via,
                 hpc, hcid, hch, sends, closes, firstSend, hlate>>

DispatchNext ==
  \/ \E d \in Dispatches : GetCallback(d)
  \/ \E d \in Dispatches : ExecuteAddon(d)
  \/ \E d \in Dispatches : SelectEnter(d)
  \/ \E d \in Dispatches : TimerFire(d)
  \/ \E d \in Dispatches : TimeoutReturn(d)
  \/ \E d \in Dispatches : ResultReturn(d)
  \/ \E h \in Handlers : HandlerLookup(h)
  \/ \E h \in Handlers : HandlerRemove(h)
  \/ \E h \in Handlers : HandlerSend(h)
  \/ \E h \in Handlers : HandlerClose(h)
  \/ Tick

\* Time passes, also beyond MaxTime while a time.After timer is armed: the
\* runtime's clock does not stop under a parked select.
TickOn ==
  /\ \/ now < MaxTime
     \/ \E d \in Dispatches : dpc[d] = "waiting" /\ now < deadline[d]
  /\ now' = now + 1
  /\ UNCHANGED <<notD, callbacks, chans, dpc, dcid, deadline, received, torrents, doneAt, via,
                 hpc, hcid, hch, sends, closes, firstSend, hlate>>

\* The dispatcher with a clock that runs on to every armed deadline; the
\* callbacks come from LiveHandlers.
DispatchLiveNext ==
  \/ \E d \in Dispatches : GetCallback(d)
  \/ \E d \in Dispatches : ExecuteAddon(d)
  \/ \E d \in Dispatches : SelectEnter(d)
  \/ \E d \in Dispatches : TimerFire(d)
  \/ \E d \in Dispatches : TimeoutReturn(d)
  \/ \E d \in Dispatches : ResultReturn(d)
  \/ \E h \in LiveHandlers : HandlerLookup(h)
  \/ \E h \in LiveHandlers : HandlerRemove(h)
  \/ \E h \in LiveHandlers : HandlerSend(h)
  \/ \E h \in LiveHandlers : HandlerClose(h)
  \/ TickOn

(***************************************************************************)
(* The Trakt cache-aside fetchers.                                          *)
(*                                                                          *)
(* A behaviour of SpecFetch exercises one fetcher, chosen at the start      *)
(* (focus): the fetchers use disjoint key formats, so the cache entries of  *)
(* one never meet those of another.  A cached value and a returned value    *)
(* are a sequence of entity names: <<>> is the nil pointer or the empty     *)
(* list, <<"m1">> the pointer to m1 or the one-element list.                *)
(***************************************************************************)
NumIDs == 2
MaxPage == 3
ResultsPerPage == 2
PagesAtOnce == 2
IntBits == 6
MaxResultsPerPage == 3

IDs == 1..NumIDs
ClientPages == 1..MaxPage
Categories == {"popular", "trending"}
Endpoints == {"my/shows", "all/shows"}
Users == {"u1", "u2"}

EntityFetchers ==
  {"GetMovie", "GetMovieByTMDB", "GetShow", "GetShowByTMDB", "GetShowByTVDB",
   "GetSeasonEpisodes", "GetEpisode", "GetEpisodeByID", "GetEpisodeByTMDB",
   "GetEpisodeByTVDB"}
TopFetchers == {"TopMovies", "TopShows"}
AuthListFetchers ==
  {"WatchlistMovies", "WatchlistShows", "CollectionMovies", "CollectionShows"}
ListItemsFetchers == {"ListItemsMovies", "ListItemsShows"}
CalendarFetchers == {"CalendarMovies", "CalendarShows"}
PagedFetchers == TopFetchers \cup CalendarFetchers
Fetchers ==
  EntityFetchers \cup TopFetchers \cup AuthListFetchers \cup ListItemsFetchers
    \cup CalendarFetchers

\* What the fetcher decodes the body into: the entity itself, a list of search
\* results of which the first is taken, a list, or a page of a list (a list
\* that comes with pagination headers).
Target(f) ==
  IF f \in {"GetMovieByTMDB", "GetShowByTMDB", "GetEpisodeByTMDB"} THEN "results"
  ELSE IF f \in {"GetSeasonEpisodes"} \cup AuthListFetchers \cup ListItemsFetchers
    THEN "list"
  ELSE IF f \in PagedFetchers THEN "page"
  ELSE "entity"

\* resp.Unmarshal(&v) for each target: the value decoded, or old when the body
\* does not decode (the error is only logged).
Unmarshal(target, body, old) ==
  CASE target = "entity" ->
         (CASE body = "{m1}" -> <<"m1">>
            [] body = "{m2}" -> <<"m2">>
            [] body = "{}" -> <<"zero">>
            [] OTHER -> old)
    [] target = "results" ->
         (CASE body = "[{m1}]" -> <<"m1">>
            [] body = "[{m2}]" -> <<"m2">>
            [] body = "[]" -> <<>>
            [] OTHER -> old)
    [] OTHER ->
         (CASE body = "[m1]" -> <<"m1">>
            [] body = "[]" -> <<>>
            [] OTHER -> old)

\* Whether the body decodes into the target at all.
Decodes(target, body) ==
  CASE target = "entity" -> body \in {"{m1}", "{m2}", "{}"}
    [] target = "results" -> body \in {"[{m1}]", "[{m2}]", "[]"}
    [] OTHER -> body \in {"[m1]", "[]"}

\* Bodies the upstream sends with status 200, and with another status.
OkBodies(target) ==
  CASE target = "entity" -> {"{m1}", "{m2}", ""}
    [] target = "results" -> {"[{m1}]", "[{m2}]", "[]", ""}
    [] OTHER -> {"[m1]", "[]", ""}

ErrorBodies == {"", "{}"}

\* Outcomes of one upstream call (Get / GetWithAuth): a transport error, with
\* a nil response or not, or a response with a status, a body and the item
\* count of the pagination header (-1 when the header is missing).
Responses(target) ==
  [err : {TRUE}, nilResp : BOOLEAN, status : {0}, body : {""}, items : {-1}]
    \cup [err : {FALSE}, nilResp : {FALSE}, status : {200}, body : OkBodies(target),
          items : IF target = "page" THEN {-1, 7} ELSE {-1}]
    \cup [err : {FALSE}, nilResp : {FALSE}, status : {404}, body : ErrorBodies,
          items : {-1}]

NoResponse == [err |-> FALSE, nilResp |-> FALSE, status |-> 0, body |-> "", items |-> -1]

\* The class of an upstream outcome.
Outcome(resp) ==
  IF resp.err THEN "transport"
  ELSE IF resp.status = 200 THEN "ok" ELSE "badstatus"

\* fmt.Sprintf(cache.<Kind>Key, ...): the key format names the fetcher's kind,
\* followed by the identifying arguments.
Key(f, a, b) == <<f, a, b>>

\* Go's int: IntBits bits, two's complement; the product of two ints wraps.
MaxInt == 2 ^ (IntBits - 1) - 1
MinInt == 0 - 2 ^ (IntBits - 1)
Wrap(x) == ((x - MinInt) % (2 ^ IntBits)) + MinInt

\* Go's integer division truncates toward zero.
Abs(x) == IF x < 0 THEN 0 - x ELSE x
Quot(a, b) ==
  IF (a < 0) = (b < 0) THEN Abs(a) \div Abs(b) ELSE 0 - (Abs(a) \div Abs(b))

\* limit := resultsPerPage * PagesAtOnce (movies.go 196).
Limit(per) == Wrap(per * PagesAtOnce)

\* (pageInt-1)*resultsPerPage/limit + 1 (movies.go 201), for limit # 0.
Translate(pageInt, per) ==
  Wrap(Quot(Wrap((pageInt - 1) * per), Limit(per)) + 1)

\* Mutant: the client page is the upstream page.
UpstreamPageAsGiven(page) == page

\* (pageInt-1)*resultsPerPage/limit + 1 with limit = resultsPerPage*PagesAtOnce.
UpstreamPage(page) == Translate(page, ResultsPerPage)

\* strings.Replace(endPoint, "/", ".", -1)
EndPointKey(e) ==
  CASE e = "my/shows" -> "my.shows"
    [] e = "all/shows" -> "all.shows"
    [] OTHER -> e

\* What a behaviour exercises: a fetcher and, for the paginated ones, one
\* category or endpoint (the keys of two of them are distinct, whatever the
\* page).
Focuses ==
  {<<f, "">> : f \in EntityFetchers \cup AuthListFetchers \cup ListItemsFetchers}
    \cup {<<f, c>> : f \in TopFetchers, c \in Categories}
    \cup {<<f, EndPointKey(e)>> : f \in CalendarFetchers, e \in Endpoints}

KeysOf(fc) ==
  IF fc[1] \in PagedFetchers
    THEN {Key(fc[1], fc[2], UpstreamPage(p)) : p \in ClientPages}
    ELSE IF fc[1] \in AuthListFetchers
      THEN {Key(fc[1], "", 0)}
      ELSE {Key(fc[1], ToString(i), 0) : i \in IDs}

TotalKeysOf(fc) ==
  IF fc[1] \in PagedFetchers THEN {fc[2]} ELSE {}

Absent == [present |-> FALSE, val |-> <<>>]
Entry(v) == [present |-> TRUE, val |-> v]
NoTotal == -2

InitRecord ==
  [kind |-> "init", key |-> Key("", "", 0), force |-> FALSE,
   up |-> "none", body |-> "", before |-> Absent, calls |-> 0, result |-> <<>>,
   total |-> 0, failed |-> FALSE, panic |-> FALSE, who |-> "", page |-> 0,
   auth |-> TRUE]

FetchInit ==
  /\ focus \in Focuses
  /\ cache = [k \in KeysOf(focus) |-> Absent]
  /\ totals = [c \in TotalKeysOf(focus) |-> NoTotal]
  /\ last = InitRecord
  /\ prev = InitRecord

\* The record of a call: what the upstream answered (resp, or NoResponse when
\* it was not called), the entry found before the call, what was returned.
CallRecord(key, force, called, resp, result, total, failed, panic) ==
  [kind |-> "fetch", key |-> key, force |-> force,
   up |-> IF called THEN Outcome(resp) ELSE "none",
   body |-> IF called THEN resp.body ELSE "",
   before |-> cache[key], calls |-> IF called THEN 1 ELSE 0,
   result |-> result, total |-> total, failed |-> failed, panic |-> panic,
   who |-> "", page |-> 0, auth |-> TRUE]

\* The record, with the user or endpoint and the client page the call was for.
CallRecordFor(who, page, rec) == [rec EXCEPT !.who = who, !.page = page]

\* cacheStore.Get(key, &v): an error when there is no (unexpired) entry.
CacheHit(key) == cache[key].present

\* cacheStore.Set(key, v, ttl).
CacheSet(key, v) == cache' = [cache EXCEPT ![key] = Entry(v)]

\* The entry's time to live has run out.
Expire ==
  /\ \E k \in DOMAIN cache :
       /\ cache[k].present
       /\ cache' = [cache EXCEPT ![k] = Absent]
       /\ prev' = last /\ last' = [InitRecord EXCEPT !.kind = "expire", !.key = k]
  /\ UNCHANGED <<focus, totals, notF>>

ExpireTotal ==
  /\ \E c \in DOMAIN totals :
       /\ totals[c] # NoTotal
       /\ totals' = [totals EXCEPT ![c] = NoTotal]
  /\ prev' = last /\ last' = [InitRecord EXCEPT !.kind = "expire"]
  /\ UNCHANGED <<focus, cache, notF>>

\* Mutant: a call served from the cached page knows no total.
CachedTotalNone(c) == -1

\* cacheStore.Get(totalKey, &total), total = -1 when it fails (movies.go
\* 257-259, 587-589).
CachedTotal(c) == IF totals[c] = NoTotal THEN -1 ELSE totals[c]

\* Mutant: every fetcher goes upstream when the cached value is empty.
EmptyIsMissAll(f) == TRUE

\* TopMovies and TopShows go upstream when the cached page is empty
\* (err != nil || len(movies) == 0, movies.go 211, part_000 362).
EmptyIsMiss(f) == f \in TopFetchers

\* Whether the call goes upstream: cacheStore.Get failed, or the fetcher takes
\* an empty cached value for a miss.
Miss(f, key) == ~CacheHit(key) \/ (EmptyIsMiss(f) /\ Len(cache[key].val) = 0)

\* Whether the fetcher returns right after logging a transport error: all do,
\* except GetMovie (movies.go 115-118), which goes on to Unmarshal and Set.
ReturnsOnError(f) == f # "GetMovie"

\* The single-entity fetchers, all of the shape of GetShow (part_000 118-142):
\* Get from the cache; on a miss call the upstream, return on a transport
\* error, otherwise decode whatever came (the status is not looked at) and
\* Set the value, nil included.
EntityFetch(f, id, resp) ==
  LET key == Key(f, ToString(id), 0)
      v == Unmarshal(Target(f), resp.body, <<>>)
  IN
  /\ focus = <<f, "">>
  /\ IF ~Miss(f, key)
       THEN /\ prev' = last /\ last' = CallRecord(key, FALSE, FALSE, NoResponse, cache[key].val, 0,
                                  FALSE, FALSE)
            /\ UNCHANGED cache
       ELSE IF resp.err /\ ReturnsOnError(f)
         THEN /\ prev' = last /\ last' = CallRecord(key, FALSE, TRUE, resp, <<>>, 0, TRUE, FALSE)
              /\ UNCHANGED cache
         ELSE IF resp.err /\ resp.nilResp
           THEN \* resp.Unmarshal on a nil response: the call panics
                /\ prev' = last /\ last' = CallRecord(key, FALSE, TRUE, resp, <<>>, 0, TRUE, TRUE)
                /\ UNCHANGED cache
           ELSE /\ CacheSet(key, v)
                /\ prev' = last /\ last' = CallRecord(key, FALSE, TRUE, resp, v, 0, FALSE, FALSE)
  /\ UNCHANGED <<focus, totals, notF>>

GetMovie ==
  \E id \in IDs, resp \in Responses("entity") : EntityFetch("GetMovie", id, resp)
GetMovieByTMDB ==
  \E id \in IDs, resp \in Responses("results") : EntityFetch("GetMovieByTMDB", id, resp)
GetShow ==
  \E id \in IDs, resp \in Responses("entity") : EntityFetch("GetShow", id, resp)
GetShowByTMDB ==
  \E id \in IDs, resp \in Responses("results") : EntityFetch("GetShowByTMDB", id, resp)
GetShowByTVDB ==
  \E id \in IDs, resp \in Responses("entity") : EntityFetch("GetShowByTVDB", id, resp)
GetSeasonEpisodes ==
  \E id \in IDs, resp \in Responses("list") : EntityFetch("GetSeasonEpisodes", id, resp)
GetEpisode ==
  \E id \in IDs, resp \in Responses("entity") : EntityFetch("GetEpisode", id, resp)
GetEpisodeByID ==
  \E id \in IDs, resp \in Responses("entity") : EntityFetch("GetEpisodeByID", id, resp)
GetEpisodeByTMDB ==
  \E id \in IDs, resp \in Responses("results") : EntityFetch("GetEpisodeByTMDB", id, resp)
GetEpisodeByTVDB ==
  \E id \in IDs, resp \in Responses("entity") : EntityFetch("GetEpisodeByTVDB", id, resp)

\* TopShows returns the decode error of a "popular"/"recommendations" page
\* (part_000 380-382); TopMovies only logs it (movies.go 229-231).
ReturnsDecodeError(f, cat) == f = "TopShows" /\ cat = "popular"

\* TopMovies (movies.go 189-263) and TopShows (part_000 340-414), the page
\* argument being a number.
TopFetch(f, cat, page, resp) ==
  LET key == Key(f, cat, UpstreamPage(page))
      cached == IF CacheHit(key) THEN cache[key].val ELSE <<>>
      miss == Miss(f, key)
      v == Unmarshal("page", resp.body, IF cat = "popular" THEN <<>> ELSE cached)
  IN
  /\ focus = <<f, cat>>
  /\ IF ~miss
       THEN /\ prev' = last /\ last' = CallRecordFor("", page, CallRecord(key, FALSE, FALSE, NoResponse, cached,
                                  CachedTotal(cat),
                                  FALSE, FALSE))
            /\ UNCHANGED <<cache, totals>>
       ELSE IF resp.err \/ resp.status # 200
         THEN /\ prev' = last /\ last' = CallRecordFor("", page, CallRecord(key, FALSE, TRUE, resp, cached, 0, TRUE, FALSE))
              /\ UNCHANGED <<cache, totals>>
         ELSE IF ReturnsDecodeError(f, cat) /\ ~Decodes("page", resp.body)
           THEN /\ prev' = last /\ last' = CallRecordFor("", page, CallRecord(key, FALSE, TRUE, resp, cached, 0, TRUE, FALSE))
                /\ UNCHANGED <<cache, totals>>
           ELSE /\ totals' = [totals EXCEPT ![cat] = resp.items]
                /\ CacheSet(key, v)
                /\ prev' = last /\ last' = CallRecordFor("", page, CallRecord(key, FALSE, TRUE, resp, v, resp.items,
                                      FALSE, FALSE))
  /\ UNCHANGED <<focus, notF>>

\* A paginated fetcher with a page argument that strconv.Atoi rejects: the
\* error is returned before the cache is touched.
BadPageFetch(f) ==
  /\ focus[1] = f
  /\ prev' = last /\ last' = [InitRecord EXCEPT !.kind = "badpage", !.failed = TRUE]
  /\ UNCHANGED <<cache, totals, focus, notF>>

TopMovies ==
  \/ \E cat \in Categories, page \in ClientPages, resp \in Responses("page") :
       TopFetch("TopMovies", cat, page, resp)
  \/ BadPageFetch("TopMovies")
TopShows ==
  \/ \E cat \in Categories, page \in ClientPages, resp \in Responses("page") :
       TopFetch("TopShows", cat, page, resp)
  \/ BadPageFetch("TopShows")

\* Mutant: the cache is read whether an update is needed or not.
ReadsCacheAlways(isUpdateNeeded) == TRUE

\* if !isUpdateNeeded { cacheStore.Get(...) } (movies.go 278-282, 506-510).
ReadsCache(isUpdateNeeded) == ~isUpdateNeeded

\* Mutant: the result of Authorized() is not looked at.
DeniedNever(authorized) == FALSE

\* if err := Authorized(); err != nil { return ..., err }, the first statement
\* of the functions that need the user's account (movies.go 267, 313;
\* part_000 418, 474, 689).
Denied(authorized) == ~authorized

\* WatchlistMovies (movies.go 266-309), CollectionMovies (312-353),
\* WatchlistShows (part_000 417-461), CollectionShows (473-515): the
\* authorization first; the cache unless an update is needed; then the
\* upstream, whose error or non-200 status is returned; the decoded list (empty
\* when the body does not decode) is Set and returned.
AuthListFetch(f, authorized, isUpdateNeeded, resp) ==
  LET key == Key(f, "", 0)
      v == Unmarshal("list", resp.body, <<>>)
      As(rec) == [rec EXCEPT !.auth = authorized]
  IN
  /\ focus = <<f, "">>
  /\ IF Denied(authorized)
       THEN /\ prev' = last /\ last' = As([InitRecord EXCEPT !.kind = "unauthorized", !.key = key, !.before = cache[key],
                                          !.failed = TRUE, !.force = isUpdateNeeded])
            /\ UNCHANGED cache
       ELSE IF ReadsCache(isUpdateNeeded) /\ ~Miss(f, key)
         THEN /\ prev' = last /\ last' = As(CallRecord(key, isUpdateNeeded, FALSE, NoResponse, cache[key].val, 0,
                                    FALSE, FALSE))
              /\ UNCHANGED cache
         ELSE IF resp.err \/ resp.status # 200
           THEN /\ prev' = last /\ last' = As(CallRecord(key, isUpdateNeeded, TRUE, resp, <<>>, 0,
                                      TRUE, FALSE))
                /\ UNCHANGED cache
           ELSE /\ CacheSet(key, v)
                /\ prev' = last /\ last' = As(CallRecord(key, isUpdateNeeded, TRUE, resp, v, 0,
                                      FALSE, FALSE))
  /\ UNCHANGED <<focus, totals, notF>>

WatchlistMovies ==
  \E a, u \in BOOLEAN, resp \in Responses("list") :
    AuthListFetch("WatchlistMovies", a, u, resp)
WatchlistShows ==
  \E a, u \in BOOLEAN, resp \in Responses("list") :
    AuthListFetch("WatchlistShows", a, u, resp)
CollectionMovies ==
  \E a, u \in BOOLEAN, resp \in Responses("list") :
    AuthListFetch("CollectionMovies", a, u, resp)
CollectionShows ==
  \E a, u \in BOOLEAN, resp \in Responses("list") :
    AuthListFetch("CollectionShows", a, u, resp)

\* ListItemsMovies (movies.go 491-541) and ListItemsShows (part_000 527-577):
\* the key is built from the list id alone; a transport error or a non-200
\* status returns (shows, errGet), errGet being nil for a bad status.
ListItemsFetch(f, user, listID, isUpdateNeeded, resp) ==
  LET key == Key(f, ToString(listID), 0)
      v == Unmarshal("list", resp.body, <<>>)
  IN
  /\ focus = <<f, "">>
  /\ IF ReadsCache(isUpdateNeeded) /\ ~Miss(f, key)
       THEN /\ prev' = last /\ last' = CallRecordFor(user, 0, CallRecord(key, isUpdateNeeded, FALSE, NoResponse, cache[key].val, 0,
                                  FALSE, FALSE))
            /\ UNCHANGED cache
       ELSE IF resp.err \/ resp.status # 200
         THEN /\ prev' = last /\ last' = CallRecordFor(user, 0, CallRecord(key, isUpdateNeeded, TRUE, resp, <<>>, 0,
                                    resp.err, FALSE))
              /\ UNCHANGED cache
         ELSE /\ CacheSet(key, v)
              /\ prev' = last /\ last' = CallRecordFor(user, 0, CallRecord(key, isUpdateNeeded, TRUE, resp, v, 0,
                                    FALSE, FALSE))
  /\ UNCHANGED <<focus, totals, notF>>

ListItemsMovies ==
  \E user \in Users, id \in IDs, u \in BOOLEAN, resp \in Responses("list") :
    ListItemsFetch("ListItemsMovies", user, id, u, resp)
ListItemsShows ==
  \E user \in Users, id \in IDs, u \in BOOLEAN, resp \in Responses("list") :
    ListItemsFetch("ListItemsShows", user, id, u, resp)

\* CalendarMovies (movies.go 544-593) and CalendarShows (part_000 589-636),
\* the page argument being a number.
CalendarFetch(f, endPoint, page, resp) ==
  LET ek == EndPointKey(endPoint)
      key == Key(f, ek, UpstreamPage(page))
      v == Unmarshal("page", resp.body, <<>>)
  IN
  /\ focus = <<f, ek>>
  /\ IF ~Miss(f, key)
       THEN /\ prev' = last /\ last' = CallRecordFor(endPoint, page, CallRecord(key, FALSE, FALSE, NoResponse, cache[key].val,
                                  CachedTotal(ek),
                                  FALSE, FALSE))
            /\ UNCHANGED <<cache, totals>>
       ELSE IF resp.err \/ resp.status # 200
         THEN /\ prev' = last /\ last' = CallRecordFor(endPoint, page, CallRecord(key, FALSE, TRUE, resp, <<>>, 0, TRUE, FALSE))
              /\ UNCHANGED <<cache, totals>>
         ELSE /\ totals' = [totals EXCEPT ![ek] = resp.items]
              /\ CacheSet(key, v)
              /\ prev' = last /\ last' = CallRecordFor(endPoint, page, CallRecord(key, FALSE, TRUE, resp, v, resp.items,
                                    FALSE, FALSE))
  /\ UNCHANGED <<focus, notF>>

CalendarMovies ==
  \/ \E e \in Endpoints, page \in ClientPages, resp \in Responses("page") :
       CalendarFetch("CalendarMovies", e, page, resp)
  \/ BadPageFetch("CalendarMovies")
CalendarShows ==
  \/ \E e \in Endpoints, page \in ClientPages, resp \in Responses("page") :
       CalendarFetch("CalendarShows", e, page, resp)
  \/ BadPageFetch("CalendarShows")

FetchNext ==
  \/ GetMovie \/ GetMovieByTMDB
  \/ GetShow \/ GetShowByTVDB \/ GetShowByTMDB
  \/ GetSeasonEpisodes
  \/ GetEpisode \/ GetEpisodeByID \/ GetEpisodeByTMDB \/ GetEpisodeByTVDB
  \/ TopMovies \/ TopShows
  \/ WatchlistMovies \/ WatchlistShows \/ CollectionMovies \/ CollectionShows
  \/ ListItemsMovies \/ ListItemsShows
  \/ CalendarMovies \/ CalendarShows
  \/ Expire \/ ExpireTotal

\* The fetchers at rest, for the specifications of the other subsystems.
FetchIdle ==
  /\ focus = <<"none", "">>
  /\ cache = <<>>
  /\ totals = <<>>
  /\ last = InitRecord
  /\ prev = InitRecord

(***************************************************************************)
(* WatchedShowsProgress (part_000 688-772).  Runs follow one another; in a  *)
(* run the goroutines of the shows touch disjoint keys and slots, so each  *)
(* is one step, and the steps of a run come in any order.  A next-episode  *)
(* pointer is tagged with the LastWatchedAt it was computed for.  The      *)
(* cache store outlives the process: a behaviour starts with an empty      *)
(* store, or with the store as a run that fetched every show's progress    *)
(* at LastWatchedAt = 1 left it.                                           *)
(***************************************************************************)
NumShows == 2
MaxWatchedAt == 2
MaxRuns == 2
MaxEpisode == 1
MaxActivity == 2
NumItems == 3
NumRuns == 2
NumTasks == 3

TraktShows == 1 .. NumShows
WatchedTimes == 1 .. MaxWatchedAt

\* showsList[idx] == nil, and a ProgressShow with its next episode.
NoPointer == [set |-> FALSE, at |-> 0]
Pointer(t) == [set |-> TRUE, at |-> t]

\* NextEpisode: nil, or an episode with its number and its season.
NoEpisode == [set |-> FALSE, number |-> 0, season |-> 0]
Episode(n, sn) == [set |-> TRUE, number |-> n, season |-> sn]
Episodes == {NoEpisode} \cup {Episode(n, sn) : n, sn \in 0 .. MaxEpisode}

\* A cached WatchedProgressShow: no entry; or an entry holding nil (present,
\* ~decoded) or a progress computed for LastWatchedAt = at, with its
\* NextEpisode (next).
NoProgress == [present |-> FALSE, decoded |-> FALSE, at |-> 0, next |-> NoEpisode]
NilProgress == [present |-> TRUE, decoded |-> FALSE, at |-> 0, next |-> NoEpisode]
Progress(t, n) == [present |-> TRUE, decoded |-> TRUE, at |-> t, next |-> n]

\* Answers of GetWithAuth("shows/<id>/progress/watched"): a transport error,
\* a status other than 200, or a 200 whose body decodes (with or without a
\* next episode) or does not.
ProgressResponses ==
  [err : {TRUE}, status : {0}, decodes : {FALSE}, next : {NoEpisode}]
    \cup [err : {FALSE}, status : {404}, decodes : {FALSE}, next : {NoEpisode}]
    \cup [err : {FALSE}, status : {200}, decodes : {FALSE}, next : {NoEpisode}]
    \cup [err : {FALSE}, status : {200}, decodes : {TRUE}, next : Episodes]

NoRun ==
  [done |-> FALSE, at |-> [s \in TraktShows |-> 0],
   calls |-> [s \in TraktShows |-> 0],
   outcome |-> [s \in TraktShows |-> "none"],
   slot |-> [s \in TraktShows |-> NoPointer], expired |-> {}]

\* The synchronizer at rest, whatever the store holds.
ProgressAtRest ==
  /\ ppc = "idle"
  /\ lastWatchedAt = [s \in TraktShows |-> 1]
  /\ wg = {}
  /\ showsList = [s \in TraktShows |-> NoPointer]
  /\ upstreamCalls = [s \in TraktShows |-> 0]
  /\ outcome = [s \in TraktShows |-> "none"]
  /\ shows = <<>>
  /\ lastErr = "none"
  /\ expired = {}
  /\ lastRun = NoRun
  /\ prevRun = NoRun
  /\ runs = 0

ProgressInit ==
  /\ ProgressAtRest
  /\ \/ /\ watchedAtCache = [s \in TraktShows |-> 0]
        /\ progressCache = [s \in TraktShows |-> NoProgress]
     \/ /\ watchedAtCache = [s \in TraktShows |-> 1]
        /\ progressCache = [s \in TraktShows |-> Progress(1, Episode(1, 1))]

\* The synchronizer at rest in the behaviours of the other subsystems.
ProgressIdle ==
  /\ ProgressAtRest
  /\ watchedAtCache = [s \in TraktShows |-> 0]
  /\ progressCache = [s \in TraktShows |-> NoProgress]

\* Between two runs an episode of the show is marked watched: the watched
\* list of the next run carries a later LastWatchedAt.
Watch ==
  /\ ppc = "idle"
  /\ runs < MaxRuns
  /\ \E s \in TraktShows, t \in WatchedTimes :
       /\ t > lastWatchedAt[s]
       /\ lastWatchedAt' = [lastWatchedAt EXCEPT ![s] = t]
  /\ UNCHANGED <<ppc, watchedAtCache, progressCache, wg, showsList, upstreamCalls,
                 outcome, shows, lastErr, expired, lastRun, prevRun, runs, notP>>

\* The time to live of the show's snapshot, or of its progress, runs out.
\* (Taken between runs: within a run it commutes with the other shows' steps.)
ExpireWatchedAt ==
  /\ ppc = "idle"
  /\ runs < MaxRuns
  /\ \E s \in TraktShows :
       /\ watchedAtCache[s] # 0
       /\ watchedAtCache' = [watchedAtCache EXCEPT ![s] = 0]
       /\ expired' = expired \cup {s}
  /\ UNCHANGED <<ppc, lastWatchedAt, progressCache, wg, showsList, upstreamCalls,
                 outcome, shows, lastErr, lastRun, prevRun, runs, notP>>

ExpireProgress ==
  /\ ppc = "idle"
  /\ runs < MaxRuns
  /\ \E s \in TraktShows :
       /\ progressCache[s].present
       /\ progressCache' = [progressCache EXCEPT ![s] = NoProgress]
       /\ expired' = expired \cup {s}
  /\ UNCHANGED <<ppc, lastWatchedAt, watchedAtCache, wg, showsList, upstreamCalls,
                 outcome, shows, lastErr, lastRun, prevRun, runs, notP>>

\* Lines 689-720: the authorization, the activities and the watched list, any
\* of which ends the invocation with its error (the records of the runs start
\* afresh: the runs around a refused invocation are not consecutive); then
\* the slots are made and a goroutine is started for each show of the list.
RunStart ==
  /\ ppc = "idle"
  /\ runs < MaxRuns
  /\ \E err \in {"none", "Authorized", "GetLastActivities", "WatchedShows"} :
       /\ lastErr' = err
       /\ IF err = "none"
            THEN /\ ppc' = "running"
                 /\ wg' = TraktShows
                 /\ showsList' = [s \in TraktShows |-> NoPointer]
                 /\ upstreamCalls' = [s \in TraktShows |-> 0]
                 /\ outcome' = [s \in TraktShows |-> "none"]
                 /\ runs' = runs + 1
                 /\ UNCHANGED <<shows, lastRun, prevRun, expired>>
            ELSE /\ shows' = <<>>
                 /\ lastRun' = NoRun
                 /\ prevRun' = NoRun
                 /\ expired' = {}
                 /\ UNCHANGED <<ppc, wg, showsList, upstreamCalls, outcome, runs>>
  /\ UNCHANGED <<lastWatchedAt, watchedAtCache, progressCache, notP>>

\* Lines 741-745: the snapshot is there and equals show.LastWatchedAt, and
\* the progress is there.
\* Mutant: the progress is reused whatever the snapshot.
ReusableAnySnapshot(s) == progressCache[s].present

Reusable(s) ==
  /\ watchedAtCache[s] # 0
  /\ lastWatchedAt[s] = watchedAtCache[s]
  /\ progressCache[s].present

\* Line 728, in the deferred function: the snapshot is set to
\* show.LastWatchedAt however the goroutine ends.
\* Mutant: the snapshot is never written.
DeferredSetSkipped(s) == UNCHANGED watchedAtCache

\* Mutant: the snapshot is written on the reuse path alone.
DeferredSetOnlyReused(s) ==
  IF Reusable(s)
    THEN watchedAtCache' = [watchedAtCache EXCEPT ![s] = lastWatchedAt[s]]
    ELSE UNCHANGED watchedAtCache

DeferredSet(s) ==
  watchedAtCache' = [watchedAtCache EXCEPT ![s] = lastWatchedAt[s]]

\* Mutant: any next episode will do, whatever its numbers.
ValidNextAnyNumber(wps) == wps.decoded /\ wps.next.set

\* Line 732: watchedProgressShow != nil && NextEpisode != nil &&
\* NextEpisode.Number != 0 && NextEpisode.Season != 0.
ValidNext(wps) ==
  wps.decoded /\ wps.next.set /\ wps.next.number # 0 /\ wps.next.season # 0

\* Lines 732-737: the slot is filled when the progress has a valid next
\* episode.
Slot(wps) == IF ValidNext(wps) THEN Pointer(wps.at) ELSE NoPointer

\* Mutant: a goroutine whose call failed holds the progress left in the cache.
HeldAfterFailureStale(s) == progressCache[s]

\* Line 724: watchedProgressShow is declared nil, and nothing has assigned it
\* when the goroutine returns at 752 or 755.
HeldAfterFailure(s) == NilProgress

\* Lines 749-755: the goroutine returns on a transport error and on a status
\* other than 200.
FailedFetch(resp) == resp.err \/ resp.status # 200

\* The goroutine of one show (lines 723-761) with its deferred function.
Goroutine(s, resp) ==
  LET failed == FailedFetch(resp)
      watchedProgressShow ==
        IF Reusable(s) THEN progressCache[s]
        ELSE IF failed THEN HeldAfterFailure(s)
        ELSE IF ~resp.decodes THEN NilProgress
        ELSE Progress(lastWatchedAt[s], resp.next)
  IN
  /\ ppc = "running"
  /\ s \in wg
  /\ IF Reusable(s)
       THEN /\ outcome' = [outcome EXCEPT ![s] = "reused"]
            /\ UNCHANGED <<progressCache, upstreamCalls>>
       ELSE /\ upstreamCalls' = [upstreamCalls EXCEPT ![s] = @ + 1]
            /\ IF failed
                 THEN /\ outcome' = [outcome EXCEPT ![s] = "failed"]
                      /\ UNCHANGED progressCache
                 ELSE /\ outcome' = [outcome EXCEPT ![s] = "fetched"]
                      /\ progressCache' =
                           [progressCache EXCEPT ![s] = watchedProgressShow]
  /\ DeferredSet(s)
  /\ showsList' = [showsList EXCEPT ![s] = Slot(watchedProgressShow)]
  /\ wg' = wg \ {s}
  /\ UNCHANGED <<ppc, lastWatchedAt, shows, lastErr, expired, lastRun, prevRun, runs, notP>>

ShowProgress == \E s \in TraktShows, resp \in ProgressResponses : Goroutine(s, resp)

\* Lines 765-769: the filled slots, in the order of the watched list.
RECURSIVE Compact(_, _)
Compact(list, i) ==
  IF i > NumShows THEN <<>>
  ELSE IF list[i].set THEN <<[show |-> i, at |-> list[i].at]>> \o Compact(list, i + 1)
  ELSE Compact(list, i + 1)

\* wg.Wait() returns (line 763) and the list is compacted and returned.
RunJoin ==
  /\ ppc = "running"
  /\ wg = {}
  /\ ppc' = "idle"
  /\ shows' = Compact(showsList, 1)
  /\ prevRun' = lastRun
  /\ lastRun' = [done |-> TRUE, at |-> lastWatchedAt, calls |-> upstreamCalls,
                 outcome |-> outcome, slot |-> showsList, expired |-> expired]
  /\ expired' = {}
  /\ UNCHANGED <<lastWatchedAt, watchedAtCache, progressCache, wg, showsList,
                 upstreamCalls, outcome, lastErr, runs, notP>>

ProgressNext ==
  \/ Watch \/ ExpireWatchedAt \/ ExpireProgress
  \/ RunStart \/ ShowProgress \/ RunJoin

(***************************************************************************)
(* MakeRequest (tmdb.go 596-628) under the rate limiter rl (tmdb.go 397).   *)
(* The limiter itself (util.RateLimiter) is described by its               *)
(* specification: run(fn) blocks until a slot is free, the window has room *)
(* and no cooldown is in force, executes fn once and releases the slot;    *)
(* coolDown(hint) sets the cooldown-until instant.  Time is kept as the    *)
(* time left of the window and of the cooldown.                            *)
(***************************************************************************)
burstRate == 2
burstTime == 2
simultaneousConnections == 2
MaxRetryAfter == 2
DefaultCoolDown == 1

Callers == 1 .. (burstRate + 1)

\* Answers of napping.Get: a transport error, or a response with a status
\* and, for the limiter, a retry hint in its header (0 = none).
Answers ==
  [err : {TRUE}, status : {0}, retryAfter : {0}]
    \cup [err : {FALSE}, status : {200, 404, 429, 500}, retryAfter : 0 .. MaxRetryAfter]

ClosureRet(resp) ==
  IF resp.err THEN "nil"
  ELSE IF resp.status = 429 THEN "ErrExceeded"
  ELSE IF resp.status = 404 THEN "ErrNotFound"
  ELSE IF resp.status # 200 THEN "ErrHTTP"
  ELSE "nil"

\* Whether the function calls rl.CoolDown with the headers (lines 609, 614).
\* Mutant: it never does.
CoolsDownNever(resp) == FALSE

CoolsDown(resp) == ~resp.err /\ resp.status \in {429, 404}

CoolDown(resp) ==
  coolDownLeft' = IF resp.retryAfter # 0 THEN resp.retryAfter ELSE DefaultCoolDown

LimiterInit ==
  /\ lpc = [c \in Callers |-> "idle"]
  /\ ret = [c \in Callers |-> "none"]
  /\ requests = [c \in Callers |-> 0]
  /\ status = [c \in Callers |-> "none"]
  /\ cooled = [c \in Callers |-> FALSE]
  /\ delayed = [c \in Callers |-> FALSE]
  /\ windowCount = 0
  /\ windowLeft = 0
  /\ coolDownLeft = 0

\* MakeRequest is called and enters rl.Call (line 597).
MakeRequest(c) ==
  /\ lpc[c] \in {"idle", "returned"}
  /\ lpc' = [lpc EXCEPT ![c] = "waiting"]
  /\ ret' = [ret EXCEPT ![c] = "none"]
  /\ requests' = [requests EXCEPT ![c] = 0]
  /\ status' = [status EXCEPT ![c] = "none"]
  /\ cooled' = [cooled EXCEPT ![c] = FALSE]
  /\ delayed' = [delayed EXCEPT ![c] = coolDownLeft > 0]
  /\ UNCHANGED <<windowCount, windowLeft, coolDownLeft, notL>>

InFlight == Cardinality({c \in Callers : lpc[c] = "running"})

\* run(fn) may start fn: no cooldown in force, a connection slot free, and
\* room in the window (a window that has run out gives way to a new one).
\* Mutant: the window is not looked at.
WindowHasRoomAlways == TRUE

WindowHasRoom == windowLeft = 0 \/ windowCount < burstRate

\* Mutant: the cooldown is not looked at.
CoolDownOverAlways == TRUE

\* Mutant: once cooled down, the limiter admits nothing more.
CoolDownOverOnlyIfNew == coolDownLeft = 0 /\ \A c \in Callers : ~cooled[c]

CoolDownOver == coolDownLeft = 0

\* run(fn) starts fn for the caller.
Admit(c) ==
  /\ lpc[c] = "waiting"
  /\ CoolDownOver
  /\ InFlight < simultaneousConnections
  /\ WindowHasRoom
  /\ IF windowLeft = 0
       THEN windowLeft' = burstTime /\ windowCount' = 1
       ELSE windowCount' = windowCount + 1 /\ UNCHANGED windowLeft
  /\ lpc' = [lpc EXCEPT ![c] = "running"]
  /\ UNCHANGED <<ret, requests, status, cooled, delayed, coolDownLeft, notL>>

\* napping.Get answers (lines 598-603), the function classifies the answer
\* (604-624), run releases the slot and MakeRequest returns ret (627).
Respond(c, resp) ==
  /\ lpc[c] = "running"
  /\ requests' = [requests EXCEPT ![c] = @ + 1]
  /\ status' = [status EXCEPT ![c] = IF resp.err THEN "transport" ELSE ToString(resp.status)]
  /\ ret' = [ret EXCEPT ![c] = ClosureRet(resp)]
  /\ IF CoolsDown(resp)
       THEN CoolDown(resp) /\ cooled' = [cooled EXCEPT ![c] = TRUE]
       ELSE UNCHANGED <<coolDownLeft, cooled>>
  /\ lpc' = [lpc EXCEPT ![c] = "returned"]
  /\ UNCHANGED <<delayed, windowCount, windowLeft, notL>>

\* Time passes: the window and the cooldown run down.
LimiterTick ==
  /\ windowLeft > 0 \/ coolDownLeft > 0
  /\ windowLeft' = IF windowLeft > 0 THEN windowLeft - 1 ELSE 0
  /\ coolDownLeft' = IF coolDownLeft > 0 THEN coolDownLeft - 1 ELSE 0
  /\ windowCount' = IF windowLeft <= 1 THEN 0 ELSE windowCount
  /\ UNCHANGED <<lpc, ret, requests, status, cooled, delayed, notL>>

Call == \E c \in Callers : MakeRequest(c)
Start == \E c \in Callers : Admit(c)
Answer == \E c \in Callers, resp \in Answers : Respond(c, resp)

LimiterNext == Call \/ Start \/ Answer \/ LimiterTick


(***************************************************************************)
(* The page translation of the paginated fetchers (movies.go 195-201,       *)
(* part_000 346-352), applied to any page strconv.Atoi can return and any   *)
(* resultsPerPage of the configuration.                                     *)
(***************************************************************************)
PageInit ==
  /\ tpc = "idle"
  /\ tpage \in 1 .. MaxInt
  /\ tper \in 1 .. MaxResultsPerPage
  /\ tup = 0

PageIdle == tpc = "idle" /\ tpage = 1 /\ tper = 1 /\ tup = 0

\* page = strconv.Itoa((pageInt-1)*resultsPerPage/limit + 1); the division
\* panics when limit is 0.
TranslatePage ==
  /\ tpc = "idle"
  /\ IF Limit(tper) = 0
       THEN tpc' = "panic" /\ UNCHANGED tup
       ELSE tpc' = "done" /\ tup' = Translate(tpage, tper)
  /\ UNCHANGED <<tpage, tper, notT>>

\* The fetcher is called again, with another page and another configuration.
PageAgain ==
  /\ tpc # "idle"
  /\ tpc' = "idle"
  /\ tpage' \in 1 .. MaxInt
  /\ tper' \in 1 .. MaxResultsPerPage
  /\ tup' = 0
  /\ UNCHANGED notT

PageNext == TranslatePage \/ PageAgain


(***************************************************************************)
(* The TMDB fetchers that go through MakeRequest: Find (tmdb.go 517-539),   *)
(* GetCountries (542-563) and GetLanguages (566-593).  MakeRequest is taken *)
(* as one step here: napping.Get fills Result from a 200 answer and leaves  *)
(* it alone otherwise.  A value is a sequence of names, <<>> being the nil  *)
(* pointer or the empty list.                                               *)
(***************************************************************************)
TmdbFetchers == {"Find", "GetCountries", "GetLanguages"}

\* The external id (Find) or the language (GetCountries, GetLanguages).
TmdbArgs == {"a", "b"}

TmdbKeys == TmdbFetchers \X TmdbArgs

\* What a 200 answer decodes into.
TmdbValue(f) ==
  CASE f = "Find" -> <<"r1">>
    [] f = "GetCountries" -> <<"c1">>
    [] OTHER -> <<"l1">>

TmdbRecord ==
  [kind |-> "init", key |-> <<"Find", "a">>, status |-> "none", ret |-> "nil",
   calls |-> 0, result |-> <<>>, before |-> Absent]

TmdbInit ==
  /\ mcache = [k \in TmdbKeys |-> Absent]
  /\ mlast = TmdbRecord

\* Whether the fetcher stores what it holds after MakeRequest: Find when
\* result != nil (tmdb.go 533-535); GetCountries and GetLanguages always
\* (tmdb.go 560, 590), the error of MakeRequest being assigned and not read.
StoresResult(f, result) == f = "Find" => result # <<>>

\* The class of an answer of napping.Get.
AnswerClass(resp) ==
  IF resp.err THEN "transport" ELSE ToString(resp.status)

\* Get from the cache; on a miss MakeRequest, then the Set.
TmdbFetch(f, arg, resp) ==
  LET key == <<f, arg>>
      result == IF ~resp.err /\ resp.status = 200 THEN TmdbValue(f) ELSE <<>>
  IN
  IF mcache[key].present
    THEN /\ mlast' = [kind |-> "fetch", key |-> key, status |-> "none",
                      ret |-> "nil", calls |-> 0, result |-> mcache[key].val,
                      before |-> mcache[key]]
         /\ UNCHANGED <<mcache, notM>>
    ELSE /\ mlast' = [kind |-> "fetch", key |-> key, status |-> AnswerClass(resp),
                      ret |-> ClosureRet(resp), calls |-> 1, result |-> result,
                      before |-> mcache[key]]
         /\ IF StoresResult(f, result)
              THEN mcache' = [mcache EXCEPT ![key] = Entry(result)]
              ELSE UNCHANGED mcache
         /\ UNCHANGED notM

Find == \E arg \in TmdbArgs, resp \in Answers : TmdbFetch("Find", arg, resp)
GetCountries ==
  \E arg \in TmdbArgs, resp \in Answers : TmdbFetch("GetCountries", arg, resp)
GetLanguages ==
  \E arg \in TmdbArgs, resp \in Answers : TmdbFetch("GetLanguages", arg, resp)

\* The entry's time to live has run out.
TmdbExpire ==
  /\ \E k \in TmdbKeys :
       /\ mcache[k].present
       /\ mcache' = [mcache EXCEPT ![k] = Absent]
       /\ mlast' = [TmdbRecord EXCEPT !.kind = "expire", !.key = k]
  /\ UNCHANGED notM

TmdbNext == Find \/ GetCountries \/ GetLanguages \/ TmdbExpire


(***************************************************************************)
(* The start of WatchedShowsProgress (part_000 688-709): the activities are *)
(* compared and the watched list is asked for, through WatchedShows         *)
(* (639-658).  GetLastActivities and Request are described by the           *)
(* specification of the fetchers: Request reads the cache unless the        *)
(* refresh is forced and stores what a successful upstream call returns.    *)
(* The activities of the previous synchronization are stored by the         *)
(* caller's synchronization.                                                *)
(***************************************************************************)
ActivityTimes == 0 .. MaxActivity

\* Answers of GetLastActivities: an error, or Episodes.WatchedAt (0 being the
\* zero time of a user who has watched nothing).
ActivityAnswers == [err : BOOLEAN, at : ActivityTimes]

\* Answers of the upstream call of Request.
ListAnswers ==
  [err : {TRUE}, status : {0}, list : {<<>>}]
    \cup [err : {FALSE}, status : {404}, list : {<<>>}]
    \cup [err : {FALSE}, status : {200}, list : {<<>>, <<"s1">>, <<"s2">>}]

ActivityRecord ==
  [kind |-> "init", now |-> 0, previous |-> 0, isRefresh |-> FALSE,
   before |-> Absent, calls |-> 0, shows |-> <<>>, failed |-> FALSE,
   auth |-> TRUE]

ActivityInit ==
  /\ acache = 0
  /\ lcache = Absent
  /\ alast = ActivityRecord

\* Mutant: the list is always refreshed.
IsRefreshAlways(lastAt, previousAt) == TRUE

\* isRefresh := !lastActivities.Episodes.WatchedAt.Equal(
\* previousActivities.Episodes.WatchedAt) (line 704); previousActivities is
\* the zero value when the cache has none (line 701).
IsRefresh(lastAt, previousAt) == lastAt # previousAt

\* Whether Request goes upstream.
RequestCalls(isUpdateNeeded) == isUpdateNeeded \/ ~lcache.present

\* What Request leaves in shows.
Requested(isUpdateNeeded, resp) ==
  IF ~RequestCalls(isUpdateNeeded) THEN lcache.val
  ELSE IF resp.err \/ resp.status # 200 THEN <<>>
  ELSE resp.list

RequestFailed(isUpdateNeeded, resp) ==
  RequestCalls(isUpdateNeeded) /\ (resp.err \/ resp.status # 200)

\* Lines 689-709.
ProgressStart(authorized, act, resp) ==
  LET isRefresh == IsRefresh(act.at, acache)
      got == Requested(isRefresh, resp)
      called == RequestCalls(isRefresh)
      ok == called /\ ~RequestFailed(isRefresh, resp)
  IN
  /\ IF Denied(authorized) \/ act.err
       THEN /\ alast' = [ActivityRecord EXCEPT
                           !.kind = IF Denied(authorized) THEN "unauthorized"
                                    ELSE "noactivities",
                           !.before = lcache, !.failed = TRUE,
                           !.auth = authorized]
            /\ UNCHANGED lcache
       ELSE /\ alast' = [kind |-> "list", now |-> act.at, previous |-> acache,
                         isRefresh |-> isRefresh, before |-> lcache,
                         calls |-> IF called THEN 1 ELSE 0, shows |-> got,
                         failed |-> RequestFailed(isRefresh, resp),
                         auth |-> authorized]
            /\ \* Request stores a fetched list; WatchedShows stores a list
               \* that is not empty (lines 651-655).
               IF ok \/ Len(got) # 0
                 THEN lcache' = Entry(got)
                 ELSE UNCHANGED lcache
  /\ UNCHANGED <<acache, notA>>

WatchedList ==
  \E authorized \in BOOLEAN, act \in ActivityAnswers, resp \in ListAnswers :
    ProgressStart(authorized, act, resp)

\* The synchronization stores the activities it has seen.
StoreActivities ==
  /\ \E t \in ActivityTimes : acache' = t
  /\ alast' = [ActivityRecord EXCEPT !.kind = "store"]
  /\ UNCHANGED <<lcache, notA>>

\* The time to live of the watched list runs out.
ExpireList ==
  /\ lcache.present
  /\ lcache' = Absent
  /\ alast' = [ActivityRecord EXCEPT !.kind = "expire"]
  /\ UNCHANGED <<acache, notA>>

ActivityNext == WatchedList \/ StoreActivities \/ ExpireList


(***************************************************************************)
(* The fan-out functions: setFanarts (movies.go 74-86), setCalendarFanarts  *)
(* (88-100), setShowsFanart (part_000 74-86), setProgressShowsFanart        *)
(* (88-101), setCalendarShowsFanart (103-115) and the loop of               *)
(* WatchedShowsProgress (717-771).  The loop starts one goroutine per item, *)
(* passing it the index; the goroutine writes its slot and calls wg.Done(); *)
(* the function returns from wg.Wait().                                     *)
(***************************************************************************)
FanOuts ==
  {"setFanarts", "setCalendarFanarts", "setShowsFanart",
   "setProgressShowsFanart", "setCalendarShowsFanart", "WatchedShowsProgress"}

Items == 1 .. NumItems

\* wg.Add(len(items)) before the loop (part_000 90, 721), or wg.Add(1) in the
\* loop before each go statement.
AddsAll(f) == f \in {"setProgressShowsFanart", "WatchedShowsProgress"}

FanOutStart(f) ==
  /\ ofn = f
  /\ opc = "loop"
  /\ oi = 1
  /\ owg = IF AddsAll(f) THEN NumItems ELSE 0
  /\ otask = [t \in Items |-> "none"]
  /\ owriters = [k \in Items |-> {}]

FanOutInit == \E f \in FanOuts : FanOutStart(f)

FanOutIdle == FanOutStart("setFanarts")

\* One turn of the loop: wg.Add(1) where it is in the loop, and the go
\* statement with the index and the item as arguments.
Spawn ==
  /\ opc = "loop"
  /\ oi <= NumItems
  /\ otask' = [otask EXCEPT ![oi] = "started"]
  /\ owg' = IF AddsAll(ofn) THEN owg ELSE owg + 1
  /\ oi' = oi + 1
  /\ UNCHANGED <<ofn, opc, owriters, notO>>

\* The loop is over: the function goes on to wg.Wait().
LoopEnd ==
  /\ opc = "loop"
  /\ oi > NumItems
  /\ opc' = "wait"
  /\ UNCHANGED <<ofn, oi, owg, otask, owriters, notO>>

\* Mutant: the goroutine uses the loop variable instead of its argument.
SlotIndexOfLoop(t) == IF oi <= NumItems THEN oi ELSE NumItems

\* movies[idx].Movie = ..., showsList[idx] = ...: idx is the argument the
\* goroutine was started with.
SlotIndex(t) == t

\* The goroutine writes its slot.
WriteSlot(t) ==
  /\ otask[t] = "started"
  /\ otask' = [otask EXCEPT ![t] = "wrote"]
  /\ owriters' = [owriters EXCEPT ![SlotIndex(t)] = @ \cup {t}]
  /\ UNCHANGED <<ofn, opc, oi, owg, notO>>

\* The goroutine ends: the deferred wg.Done().
TaskDone(t) ==
  /\ otask[t] = "wrote"
  /\ otask' = [otask EXCEPT ![t] = "done"]
  /\ owg' = owg - 1
  /\ UNCHANGED <<ofn, opc, oi, owriters, notO>>

\* wg.Wait() returns when the counter is 0.
WaitOver == owg = 0

\* The function returns the slots.
Join ==
  /\ opc = "wait"
  /\ WaitOver
  /\ opc' = "returned"
  /\ UNCHANGED <<ofn, oi, owg, otask, owriters, notO>>

Write == \E t \in Items : WriteSlot(t)
Done == \E t \in Items : TaskDone(t)

FanOutNext == Spawn \/ LoopEnd \/ Write \/ Done \/ Join


(***************************************************************************)
(* Two runs of WatchedShowsProgress at the same time, for one show          *)
(* (part_000 723-761): each cache access of the goroutine is a step of its  *)
(* own.  The cache store synchronizes each access by itself: a Get reads    *)
(* and a Set replaces the whole entry.  A progress is tagged with the       *)
(* LastWatchedAt it was fetched for and with the run that fetched it.       *)
(***************************************************************************)
Runs == 1 .. NumRuns

NoHeld == [present |-> FALSE, at |-> 0, by |-> 0]
Held(t, r) == [present |-> TRUE, at |-> t, by |-> r]

NothingWritten == [snap |-> 0, prog |-> NoHeld]

RaceAtRest ==
  /\ xpc = [r \in Runs |-> "start"]
  /\ xheld = [r \in Runs |-> NoHeld]
  /\ xcalls = [r \in Runs |-> 0]
  /\ xwrote = [r \in Runs |-> NothingWritten]
  /\ xlast = [snap |-> 0, prog |-> 0]

\* The runs start with the store empty, or as an earlier run left it.
RaceInit ==
  /\ RaceAtRest
  /\ xat \in [Runs -> WatchedTimes]
  /\ \/ xsnap = 0 /\ xprog = NoHeld
     \/ xsnap = 1 /\ xprog = Held(1, 0)

RaceIdle ==
  /\ RaceAtRest
  /\ xat = [r \in Runs |-> 1]
  /\ xsnap = 0 /\ xprog = NoHeld

\* Line 741: the Get of the snapshot and its comparison.
ReadSnapshot(r) ==
  /\ xpc[r] = "start"
  /\ xpc' = [xpc EXCEPT ![r] = IF xsnap # 0 /\ xsnap = xat[r]
                                 THEN "progress" ELSE "upstream"]
  /\ UNCHANGED <<xat, xsnap, xprog, xheld, xcalls, xwrote, xlast, notX>>

\* Lines 742-744: the Get of the progress; the goroutine returns when it is
\* there.
ReadProgress(r) ==
  /\ xpc[r] = "progress"
  /\ IF xprog.present
       THEN /\ xheld' = [xheld EXCEPT ![r] = xprog]
            /\ xpc' = [xpc EXCEPT ![r] = "deferred"]
       ELSE /\ xpc' = [xpc EXCEPT ![r] = "upstream"]
            /\ UNCHANGED xheld
  /\ UNCHANGED <<xat, xsnap, xprog, xcalls, xwrote, xlast, notX>>

\* Lines 747-759: the upstream call; the goroutine returns when it fails.
CallUpstream(r, ok) ==
  /\ xpc[r] = "upstream"
  /\ xcalls' = [xcalls EXCEPT ![r] = @ + 1]
  /\ IF ok
       THEN /\ xheld' = [xheld EXCEPT ![r] = Held(xat[r], r)]
            /\ xpc' = [xpc EXCEPT ![r] = "set"]
       ELSE /\ xpc' = [xpc EXCEPT ![r] = "deferred"]
            /\ UNCHANGED xheld
  /\ UNCHANGED <<xat, xsnap, xprog, xwrote, xlast, notX>>

\* Mutant: a Set over an entry keeps the time the entry was computed for.
StoredMixed(old, new) == IF old.present THEN [new EXCEPT !.at = old.at] ELSE new

\* cacheStore.Set replaces the entry.
Stored(old, new) == new

\* Line 761: the Set of the progress.
SetProgress(r) ==
  /\ xpc[r] = "set"
  /\ xprog' = Stored(xprog, xheld[r])
  /\ xwrote' = [xwrote EXCEPT ![r].prog = xheld[r]]
  /\ xlast' = [xlast EXCEPT !.prog = r]
  /\ xpc' = [xpc EXCEPT ![r] = "deferred"]
  /\ UNCHANGED <<xat, xsnap, xheld, xcalls, notX>>

\* Lines 726-728: the deferred Set of the snapshot.
SetSnapshot(r) ==
  /\ xpc[r] = "deferred"
  /\ xsnap' = xat[r]
  /\ xwrote' = [xwrote EXCEPT ![r].snap = xat[r]]
  /\ xlast' = [xlast EXCEPT !.snap = r]
  /\ xpc' = [xpc EXCEPT ![r] = "done"]
  /\ UNCHANGED <<xat, xprog, xheld, xcalls, notX>>

RaceRead == \E r \in Runs : ReadSnapshot(r) \/ ReadProgress(r)
RaceCall == \E r \in Runs, ok \in BOOLEAN : CallUpstream(r, ok)
RaceSet == \E r \in Runs : SetProgress(r) \/ SetSnapshot(r)

RaceNext == RaceRead \/ RaceCall \/ RaceSet

(***************************************************************************)
(* cbLock and the registry, src/tmdb/tmdb.go 696-732 and 1015-1044: every   *)
(* Lock, map operation and Unlock is a step of its own, and so is every     *)
(* place where a task can block.                                            *)
(***************************************************************************)
Tasks == 1 .. NumTasks

NoOp == [task |-> 0, op |-> "none", held |-> "none"]

\* How task t holds cbLock.
HeldBy(t) == IF kw = t THEN "w" ELSE IF t \in kr THEN "r" ELSE "none"

Op(t, op) == [task |-> t, op |-> op, held |-> HeldBy(t)]

LockInit ==
  /\ kpc = [t \in Tasks |-> "idle"]
  /\ krole = [t \in Tasks |-> "none"]
  /\ kcid = [t \in Tasks |-> 0]
  /\ kfound = [t \in Tasks |-> FALSE]
  /\ kmap = {}
  /\ kw = 0
  /\ kr = {}
  /\ kop = NoOp

\* cbLock.Lock(): waits until nobody holds the lock.
Lock(t) == kw = 0 /\ kr = {} /\ kw' = t /\ UNCHANGED kr

\* Mutant: the lock stays with the task.
UnlockSkipped(t) == UNCHANGED <<kw, kr>>

\* cbLock.Unlock().
Unlock(t) == kw' = 0 /\ UNCHANGED kr

\* cbLock.RLock(): waits until no writer holds the lock.
RLock(t) == kw = 0 /\ kr' = kr \cup {t} /\ UNCHANGED kw

\* cbLock.RUnlock().
RUnlock(t) == kr' = kr \ {t} /\ UNCHANGED kw

\* AddonSearcher.call starts: GetCallback draws the cid and makes the channel
\* (lines 701-702) and asks for the lock.
CallStart(t) ==
  /\ kpc[t] = "idle"
  /\ krole' = [krole EXCEPT ![t] = "call"]
  /\ \E cid \in CIDs : kcid' = [kcid EXCEPT ![t] = cid]
  /\ kpc' = [kpc EXCEPT ![t] = "getLock"]
  /\ UNCHANGED <<kfound, kmap, kw, kr, kop, notK>>

\* GetCallback, line 703.
GetLock(t) ==
  /\ kpc[t] = "getLock"
  /\ Lock(t)
  /\ kpc' = [kpc EXCEPT ![t] = "getInsert"]
  /\ UNCHANGED <<krole, kcid, kfound, kmap, kop, notK>>

\* GetCallback, line 704: callbacks[cid] = c.
GetInsert(t) ==
  /\ kpc[t] = "getInsert"
  /\ kmap' = kmap \cup {kcid[t]}
  /\ kop' = Op(t, "insert")
  /\ kpc' = [kpc EXCEPT ![t] = "getUnlock"]
  /\ UNCHANGED <<krole, kcid, kfound, kw, kr, notK>>

\* GetCallback, line 705; call goes on to ExecuteAddon and parks in the
\* select (lines 1026-1041).
GetUnlock(t) ==
  /\ kpc[t] = "getUnlock"
  /\ Unlock(t)
  /\ kpc' = [kpc EXCEPT ![t] = "select"]
  /\ UNCHANGED <<krole, kcid, kfound, kmap, kop, notK>>

\* The select is decided: by the timer, and call goes into RemoveCallback, or
\* by the channel, and call returns.
SelectDecided(t) ==
  /\ kpc[t] = "select"
  /\ \E timeout \in BOOLEAN :
       kpc' = [kpc EXCEPT ![t] = IF timeout THEN "removeLock" ELSE "done"]
  /\ UNCHANGED <<krole, kcid, kfound, kmap, kw, kr, kop, notK>>

\* CallbackHandler starts with the cid of the request and asks for the read
\* lock (lines 719-720).
HandlerStart(t) ==
  /\ kpc[t] = "idle"
  /\ krole' = [krole EXCEPT ![t] = "handler"]
  /\ \E cid \in CIDs : kcid' = [kcid EXCEPT ![t] = cid]
  /\ kpc' = [kpc EXCEPT ![t] = "lookupLock"]
  /\ UNCHANGED <<kfound, kmap, kw, kr, kop, notK>>

\* CallbackHandler, line 720.
LookupLock(t) ==
  /\ kpc[t] = "lookupLock"
  /\ RLock(t)
  /\ kpc' = [kpc EXCEPT ![t] = "lookup"]
  /\ UNCHANGED <<krole, kcid, kfound, kmap, kop, notK>>

\* CallbackHandler, line 721: c, ok := callbacks[cid].
Lookup(t) ==
  /\ kpc[t] = "lookup"
  /\ kfound' = [kfound EXCEPT ![t] = kcid[t] \in kmap]
  /\ kop' = Op(t, "lookup")
  /\ kpc' = [kpc EXCEPT ![t] = "lookupUnlock"]
  /\ UNCHANGED <<krole, kcid, kmap, kw, kr, notK>>

\* CallbackHandler, lines 722-728: release the read lock; return when there
\* was no entry, otherwise go into RemoveCallback.
LookupUnlock(t) ==
  /\ kpc[t] = "lookupUnlock"
  /\ RUnlock(t)
  /\ kpc' = [kpc EXCEPT ![t] = IF kfound[t] THEN "removeLock" ELSE "done"]
  /\ UNCHANGED <<krole, kcid, kfound, kmap, kop, notK>>

\* RemoveCallback, line 711.
RemoveLock(t) ==
  /\ kpc[t] = "removeLock"
  /\ Lock(t)
  /\ kpc' = [kpc EXCEPT ![t] = "removeDelete"]
  /\ UNCHANGED <<krole, kcid, kfound, kmap, kop, notK>>

\* RemoveCallback, line 714: delete(callbacks, cid).
RemoveDelete(t) ==
  /\ kpc[t] = "removeDelete"
  /\ kmap' = kmap \ {kcid[t]}
  /\ kop' = Op(t, "delete")
  /\ kpc' = [kpc EXCEPT ![t] = "removeUnlock"]
  /\ UNCHANGED <<krole, kcid, kfound, kw, kr, notK>>

\* RemoveCallback returns and its deferred Unlock runs (line 712): call
\* returns, the handler goes on to read the request body.
RemoveUnlock(t) ==
  /\ kpc[t] = "removeUnlock"
  /\ Unlock(t)
  /\ kpc' = [kpc EXCEPT ![t] = IF krole[t] = "call" THEN "done" ELSE "readBody"]
  /\ UNCHANGED <<krole, kcid, kfound, kmap, kop, notK>>

\* CallbackHandler, line 729: ioutil.ReadAll returns.
ReadBody(t) ==
  /\ kpc[t] = "readBody"
  /\ kpc' = [kpc EXCEPT ![t] = "send"]
  /\ UNCHANGED <<krole, kcid, kfound, kmap, kw, kr, kop, notK>>

\* CallbackHandler, lines 730-731: the send completes, close, return.
SendBody(t) ==
  /\ kpc[t] = "send"
  /\ kpc' = [kpc EXCEPT ![t] = "done"]
  /\ UNCHANGED <<krole, kcid, kfound, kmap, kw, kr, kop, notK>>

\* A finished task serves the next call or request.
TaskAgain(t) ==
  /\ kpc[t] = "done"
  /\ kpc' = [kpc EXCEPT ![t] = "idle"]
  /\ krole' = [krole EXCEPT ![t] = "none"]
  /\ kcid' = [kcid EXCEPT ![t] = 0]
  /\ kfound' = [kfound EXCEPT ![t] = FALSE]
  /\ UNCHANGED <<kmap, kw, kr, kop, notK>>

LockNext ==
  \/ \E t \in Tasks : CallStart(t)
  \/ \E t \in Tasks : GetLock(t)
  \/ \E t \in Tasks : GetInsert(t)
  \/ \E t \in Tasks : GetUnlock(t)
  \/ \E t \in Tasks : SelectDecided(t)
  \/ \E t \in Tasks : HandlerStart(t)
  \/ \E t \in Tasks : LookupLock(t)
  \/ \E t \in Tasks : Lookup(t)
  \/ \E t \in Tasks : LookupUnlock(t)
  \/ \E t \in Tasks : RemoveLock(t)
  \/ \E t \in Tasks : RemoveDelete(t)
  \/ \E t \in Tasks : RemoveUnlock(t)
  \/ \E t \in Tasks : ReadBody(t)
  \/ \E t \in Tasks : SendBody(t)
  \/ \E t \in Tasks : TaskAgain(t)

(***************************************************************************)
(* CheckAPIKey and tmdbCheck, src/tmdb/tmdb.go 386-456.                     *)
(***************************************************************************)
\* The keys compiled in (lines 387-391) and the values of the user's
\* config.Get().TMDBApiKey: none, a key of the user's, one of the compiled-in
\* keys.
BuiltInKeys == <<"k1", "k2", "k3">>

CustomKeys == {"", "kc", "k1"}

AllKeys == {"k1", "k2", "k3", "kc"}

Elements(keys) == {keys[i] : i \in 1 .. Len(keys)}

NoRequest == [key |-> "", inCall |-> FALSE, cooling |-> FALSE]

KeysAtRest ==
  /\ ypc = "start"
  /\ apiKeys = BuiltInKeys
  /\ yindex = 0
  /\ yresult = FALSE
  /\ ypool = <<>>
  /\ ychecks = 0
  /\ yfailed = {}
  /\ yreq = NoRequest

\* Package initialisation (line 392): apiKey is a random key of the pool.
KeysInit ==
  /\ KeysAtRest
  /\ apiKey \in Elements(BuiltInKeys)
  /\ yvalid \in SUBSET AllKeys
  /\ ycooling \in BOOLEAN

KeysIdle ==
  /\ KeysAtRest
  /\ apiKey = "k1"
  /\ yvalid = {}
  /\ ycooling = FALSE

\* Whether an HTTP request to TMDB made at this place runs inside the
\* function handed to rl.Call: MakeRequest's does (lines 597-598),
\* tmdbCheck's napping.Get is called directly (line 440).
InsideCall(site) == site = "MakeRequest"

\* tmdbCheck(key), lines 433-456: true for status 200.
tmdbCheck(key) == key \in yvalid

\* Mutant: the loop starts one past the last key.
StartIndexAtLen(keys) == Len(keys)

\* for index := len(apiKeys) - 1 (line 410).
StartIndex(keys) == Len(keys) - 1

\* append(apiKeys[:index], apiKeys[index+1:]...), line 418.
RemoveAt(keys, index) ==
  SubSeq(keys, 1, index) \o SubSeq(keys, index + 2, Len(keys))

\* Lines 400-410: the custom key, when there is one, is appended and
\* selected; the loop starts at the last index.
KeyStart(custom) ==
  /\ ypc = "start"
  /\ LET keys == IF custom # "" THEN Append(apiKeys, custom) ELSE apiKeys IN
       /\ apiKeys' = keys
       /\ apiKey' = IF custom # "" THEN custom ELSE apiKey
       /\ ypool' = keys
       /\ yindex' = StartIndex(keys)
       /\ ypc' = IF StartIndex(keys) >= 0 THEN "loop" ELSE "done"
  /\ yresult' = FALSE
  /\ UNCHANGED <<ychecks, yfailed, yvalid, ycooling, yreq, notY>>

\* One pass of the loop body, lines 411-427, and the loop's index-- and test.
KeyCheck ==
  /\ ypc = "loop"
  /\ ychecks' = ychecks + 1
  /\ yreq' = [key |-> apiKey, inCall |-> InsideCall("tmdbCheck"), cooling |-> ycooling]
  /\ IF tmdbCheck(apiKey)
       THEN /\ yresult' = TRUE
            /\ ypc' = "done"
            /\ UNCHANGED <<apiKeys, apiKey, yindex, yfailed>>
       ELSE /\ yfailed' = yfailed \cup {apiKey}
            /\ IF yindex + 1 \notin 1 .. Len(apiKeys)
                 THEN /\ ypc' = "panic"
                      /\ UNCHANGED <<apiKeys, apiKey, yindex, yresult>>
                 ELSE LET keys == IF apiKey = apiKeys[yindex + 1]
                                    THEN RemoveAt(apiKeys, yindex) ELSE apiKeys IN
                      /\ apiKeys' = keys
                      /\ yresult' = FALSE
                      /\ IF Len(keys) > 0
                           THEN /\ apiKey' \in Elements(keys)
                                /\ yindex' = yindex - 1
                                /\ ypc' = IF yindex - 1 >= 0 THEN "loop" ELSE "done"
                           ELSE /\ ypc' = "done"
                                /\ UNCHANGED <<apiKey, yindex>>
  /\ UNCHANGED <<ypool, yvalid, ycooling, notY>>

KeysNext ==
  \/ \E custom \in CustomKeys : KeyStart(custom)
  \/ KeyCheck

vars == <<dvars, fvars, pvars, lvars, tvars, mvars, avars, ovars, xvars, kvars, yvars>>

\* Each specification starts one subsystem, the others at rest.
InitDispatch == DispatchInit /\ FetchIdle /\ ProgressIdle /\ LimiterInit
  /\ PageIdle /\ TmdbInit /\ ActivityInit /\ FanOutIdle /\ RaceIdle
  /\ LockInit /\ KeysIdle
InitFetch == FetchInit /\ DispatchInit /\ ProgressIdle /\ LimiterInit
  /\ PageIdle /\ TmdbInit /\ ActivityInit /\ FanOutIdle /\ RaceIdle
  /\ LockInit /\ KeysIdle
InitProgress == ProgressInit /\ DispatchInit /\ FetchIdle /\ LimiterInit
  /\ PageIdle /\ TmdbInit /\ ActivityInit /\ FanOutIdle /\ RaceIdle
  /\ LockInit /\ KeysIdle
InitLimiter == LimiterInit /\ DispatchInit /\ FetchIdle /\ ProgressIdle
  /\ PageIdle /\ TmdbInit /\ ActivityInit /\ FanOutIdle /\ RaceIdle
  /\ LockInit /\ KeysIdle
InitPage == PageInit /\ DispatchInit /\ FetchIdle /\ ProgressIdle
  /\ LimiterInit /\ TmdbInit /\ ActivityInit /\ FanOutIdle /\ RaceIdle
  /\ LockInit /\ KeysIdle
InitTmdb == TmdbInit /\ DispatchInit /\ FetchIdle /\ ProgressIdle
  /\ LimiterInit /\ PageIdle /\ ActivityInit /\ FanOutIdle /\ RaceIdle
  /\ LockInit /\ KeysIdle
InitActivity == ActivityInit /\ DispatchInit /\ FetchIdle /\ ProgressIdle
  /\ LimiterInit /\ PageIdle /\ TmdbInit /\ FanOutIdle /\ RaceIdle /\ LockInit
  /\ KeysIdle
InitFanOut == FanOutInit /\ DispatchInit /\ FetchIdle /\ ProgressIdle
  /\ LimiterInit /\ PageIdle /\ TmdbInit /\ ActivityInit /\ RaceIdle
  /\ LockInit /\ KeysIdle
InitRace == RaceInit /\ DispatchInit /\ FetchIdle /\ ProgressIdle
  /\ LimiterInit /\ PageIdle /\ TmdbInit /\ ActivityInit /\ FanOutIdle
  /\ LockInit /\ KeysIdle
InitLock == LockInit /\ DispatchInit /\ FetchIdle /\ ProgressIdle
  /\ LimiterInit /\ PageIdle /\ TmdbInit /\ ActivityInit /\ FanOutIdle
  /\ RaceIdle /\ KeysIdle
InitKeys == KeysInit /\ DispatchInit /\ FetchIdle /\ ProgressIdle
  /\ LimiterInit /\ PageIdle /\ TmdbInit /\ ActivityInit /\ FanOutIdle
  /\ RaceIdle /\ LockInit

SpecDispatch == InitDispatch /\ [][DispatchNext]_vars

SpecFetch == InitFetch /\ [][FetchNext]_vars

SpecProgress == InitProgress /\ [][ProgressNext]_vars

SpecLimiter == InitLimiter /\ [][LimiterNext]_vars

SpecPage == InitPage /\ [][PageNext]_vars

SpecTmdb == InitTmdb /\ [][TmdbNext]_vars

SpecActivity == InitActivity /\ [][ActivityNext]_vars

SpecFanOut == InitFanOut /\ [][FanOutNext]_vars

SpecRace == InitRace /\ [][RaceNext]_vars

SpecLock == InitLock /\ [][LockNext]_vars

SpecKeys == InitKeys /\ [][KeysNext]_vars

\* The functions that need the user's account: a behaviour exercises one of
\* the four list fetchers or WatchedShowsProgress.
InitAuth ==
  \/ InitFetch /\ focus[1] \in AuthListFetchers
  \/ InitActivity

ProgressFocus == focus = <<"none", "">>

AuthNext ==
  \/ WatchlistMovies \/ WatchlistShows \/ CollectionMovies \/ CollectionShows
  \/ Expire
  \/ ProgressFocus /\ WatchedList
  \/ ProgressFocus /\ StoreActivities
  \/ ProgressFocus /\ ExpireList

SpecAuth == InitAuth /\ [][AuthNext]_vars

\* Time passes, an answer comes to every request made, and a caller that can
\* be admitted again and again is admitted.
LimiterFairness ==
  /\ WF_vars(LimiterTick)
  /\ \A c \in Callers : WF_vars(\E resp \in Answers : Respond(c, resp))
  /\ \A c \in Callers : SF_vars(Admit(c))

SpecLimiterLive == InitLimiter /\ [][LimiterNext]_vars /\ LimiterFairness

\* The goroutine running AddonSearcher.call is scheduled whenever it can take
\* a step, and time passes; nothing obliges a provider to call back, so the
\* handlers get no fairness.
DispatchFairness ==
  /\ WF_vars(TickOn)
  /\ \A d \in Dispatches :
       /\ WF_vars(ExecuteAddon(d))
       /\ WF_vars(SelectEnter(d))
       /\ WF_vars(TimerFire(d))
       /\ WF_vars(TimeoutReturn(d))
       /\ WF_vars(ResultReturn(d))

SpecDispatchLive == InitDispatch /\ [][DispatchLiveNext]_vars /\ DispatchFairness

(***************************************************************************)
(* Claims about the provider dispatcher.                                    *)
(***************************************************************************)

\* A handler is stuck in its send: the buffer is full, nobody is parked on the
\* channel and it is not closed.
HandlerBlocked(h) ==
  /\ hpc[h] = "removed"
  /\ ~chans[hch[h]].closed
  /\ dpc[hch[h]] # "waiting"
  /\ Len(chans[hch[h]].buf) >= ChanCap

\* C5: each channel has exactly one writer: at most one callback sends into it
\* and closes it, and no callback sends on a closed channel, closes it twice
\* or blocks on it.
C5_SingleWriter ==
  /\ \A d \in Dispatches : sends[d] <= 1 /\ closes[d] <= 1
  /\ \A h \in Handlers : hpc[h] # "panic" /\ ~HandlerBlocked(h)

\* C6: when AddonSearcher.call has returned, on either path, the registry
\* holds no entry for the correlation (the channel) that this call created.
C6_NoEntryAfterReturn ==
  \A d \in Dispatches :
    dpc[d] = "done" => \A c \in CIDs : callbacks[c] # d

\* Both paths have returned: one call by the timeout, one with a result.
C6_Witness ==
  \E d1, d2 \in Dispatches :
    /\ dpc[d1] = "done" /\ via[d1] = "timeout"
    /\ dpc[d2] = "done" /\ via[d2] = "result"

\* C7 (first half): a call into whose channel nothing was ever sent returns the
\* empty list, by the timeout case, and not before its timeout has elapsed.
C7_TimeoutResult ==
  \A d \in Dispatches :
    (dpc[d] = "done" /\ sends[d] = 0) =>
      /\ via[d] = "timeout"
      /\ torrents[d] = <<>>
      /\ doneAt[d] >= deadline[d]
      /\ deadline[d] >= ProviderTimeout

\* C7 (second half): a callback whose lookup finds no registry entry returns at
\* once: it changes no channel, no registry entry and no call's state or
\* result; and a call that has returned never changes its result.
C7_LateCallbackStep ==
  /\ \A h \in Handlers :
       (hpc[h] = "idle" /\ hpc'[h] # "idle" /\ callbacks[hcid'[h]] = 0) =>
         /\ hpc'[h] = "done"
         /\ UNCHANGED <<callbacks, chans, dpc, received, torrents, via, sends, closes>>
  /\ \A d \in Dispatches :
       dpc[d] = "done" => (dpc'[d] = "done" /\ torrents'[d] = torrents[d])

C8_FulfilledInTime ==
  /\ \A d \in Dispatches :
       (dpc[d] = "done" /\ firstSend[d].inTime) =>
         /\ via[d] = "result"
         /\ torrents[d] = (CASE firstSend[d].body = "[t1]" -> <<"t1">>
                             [] firstSend[d].body = "[t1,x]" -> <<"t1", "x0">>
                             [] OTHER -> <<>>)
  /\ \A d \in Dispatches :
       sends[d] >= 1 => \A c \in CIDs : callbacks[c] # d

\* A call returned the decoded list of a body that came in time, and a second
\* callback with the same cid has come and gone without finding an entry.
C8_Witness ==
  \E d \in Dispatches, h \in Handlers :
    /\ dpc[d] = "done" /\ via[d] = "result" /\ torrents[d] = <<"t1">>
    /\ firstSend[d].inTime
    /\ now < deadline[d]
    /\ sends[d] = 1
    /\ hcid[h] = dcid[d] /\ hpc[h] = "done" /\ hch[h] = 0
    /\ \A e \in Dispatches \ {d} : dpc[e] = "idle"

\* C25: a call that received, in time, a body that does not decode returns
\* the empty list, and the registry has no entry for it, as after any
\* fulfilment.
C25_EmptyOnDecodeFailure ==
  \A d \in Dispatches :
    (dpc[d] = "done" /\ via[d] = "result" /\ ~Decoded(firstSend[d].body)) =>
      /\ torrents[d] = <<>>
      /\ \A c \in CIDs : callbacks[c] # d

(***************************************************************************)
(* Claims about the cache-aside fetchers, checked under SpecFetch.         *)
\* The two terminal states of a dispatch.
Fulfilled(d) == dpc[d] = "done" /\ via[d] = "result"

Abandoned(d) == dpc[d] = "done" /\ via[d] = "timeout"

\* A returned call stays returned, in the terminal state it reached.
C31_Step ==
  \A d \in Dispatches :
    dpc[d] = "done" => dpc'[d] = "done" /\ via'[d] = via[d]

\* C31: every call of AddonSearcher.call returns, whether or not a callback
\* arrives; a returned call is Fulfilled (it received what a callback sent) or
\* Abandoned (it took the timeout case, having received nothing), never both,
\* and stays so.
C31_ExactlyOneTerminal ==
  /\ [](\A d \in Dispatches :
          /\ dpc[d] = "done" => (Fulfilled(d) \/ Abandoned(d))
          /\ Fulfilled(d) => received[d] \in Bodies
          /\ Abandoned(d) => received[d] = NoBody /\ now >= deadline[d])
  /\ [][C31_Step]_vars
  /\ \A d \in Dispatches : (dpc[d] = "registered") ~> (dpc[d] = "done")

\* One call fulfilled, and one abandoned with no callback ever sent to it.
C31_Witness ==
  \E d, e \in Dispatches :
    /\ Fulfilled(d)
    /\ Abandoned(e) /\ sends[e] = 0

\* The places where a task can block: the dispatcher's select, the handler's
\* read of the request body and its send, and the wait for cbLock itself.
Blocking(t) ==
  kpc[t] \in {"select", "readBody", "send", "getLock", "lookupLock", "removeLock"}

\* C32: every insert and delete on callbacks is made by the task that holds
\* cbLock for writing and every lookup by a task that holds it for reading;
\* a task that can block (in the select, in the read of the body, in the
\* send) holds cbLock in no way.
C32_LockOnlyAroundMap ==
  /\ kop.op \in {"insert", "delete"} => kop.held = "w"
  /\ kop.op = "lookup" => kop.held = "r"
  /\ \A t \in Tasks : Blocking(t) => HeldBy(t) = "none"
  /\ \A t \in Tasks : kpc[t] \in {"idle", "done"} => HeldBy(t) = "none"

\* A call parked in its select while a handler that found the entry and
\* deleted it reads the request body.
C32_Witness ==
  \E t, u \in Tasks :
    /\ krole[t] = "call" /\ kpc[t] = "select"
    /\ krole[u] = "handler" /\ kpc[u] = "readBody" /\ kcid[u] = kcid[t]
    /\ kop = [task |-> u, op |-> "delete", held |-> "w"]

\* The message of call d is out, its timeout has not elapsed, and handler h is
\* the first to look d's cid up.
FirstCallbackInTime(h, d) ==
  /\ hpc[h] = "idle" /\ hpc'[h] # "idle"
  /\ hcid'[h] = dcid[d]
  /\ \/ dpc[d] = "executed"
     \/ dpc[d] = "waiting" /\ now < deadline[d]
  /\ \A g \in Handlers \ {h} : hpc[g] = "idle" \/ hcid[g] # dcid[d]

C33_Step ==
  \A h \in Handlers, d \in Dispatches :
    FirstCallbackInTime(h, d) => hpc'[h] = "found" /\ hch'[h] = d

\* C33: the first callback for a call that comes after the call's message was
\* sent and before its timeout elapsed finds the call's entry, with the
\* call's channel, in the registry.
C33_CallbackFindsEntry == [][C33_Step]_vars

C37_Step ==
  \A d \in Dispatches :
    (dpc[d] = "idle" /\ dpc'[d] = "registered") => callbacks[dcid'[d]] = 0

\* C37: GetCallback registers no cid that has an entry in the registry.
C37_FreshCid == [][C37_Step]_vars

\* C34: the send of CallbackHandler completes at once: no handler is ever
\* stuck in its send, whether the call still waits or has stopped reading.
C34_SendNeverBlocks == \A h \in Handlers : ~HandlerBlocked(h)

(***************************************************************************)

\* The latest call was made by a single-entity fetcher and went upstream.
EntityCall(r) == r.kind = "fetch" /\ r.key[1] \in EntityFetchers /\ r.calls = 1

\* C2: when the upstream call of a single-entity fetcher fails with a
\* transport error, the entry under the request's key is left as it was, and
\* the next call for that key goes upstream again.
C2_TransportErrorNotCached ==
  /\ (EntityCall(last) /\ last.up = "transport") => cache[last.key] = last.before
  /\ (EntityCall(prev) /\ prev.up = "transport"
        /\ last.kind = "fetch" /\ last.key = prev.key) => last.calls = 1

\* C3: when the upstream answers a single-entity fetch with a status other
\* than 200, the fetcher returns a failure and the entry under the key is left
\* as it was.
C3_BadStatusNotCached ==
  (EntityCall(last) /\ last.up = "badstatus") =>
    (last.failed /\ cache[last.key] = last.before)

\* Two consecutive calls for the same key, neither forcing a refresh, the
\* first of which went upstream and got a 200.
ConsecutivePair ==
  /\ prev.kind = "fetch" /\ last.kind = "fetch"
  /\ last.key = prev.key
  /\ ~prev.force /\ ~last.force
  /\ prev.calls = 1 /\ prev.up = "ok"

ListFetchers ==
  TopFetchers \cup AuthListFetchers \cup ListItemsFetchers \cup CalendarFetchers

\* C12: a list fetcher whose upstream call ended with a transport error or
\* with a status other than 200 returns a non-nil error.
C12_ListErrorReturned ==
  (last.kind = "fetch" /\ last.key[1] \in ListFetchers
     /\ last.up \in {"transport", "badstatus"})
    => last.failed

\* C13: a fetcher whose upstream call succeeded with a body that does not
\* decode returns no error.
C13_DecodeFailureNotReturned ==
  (last.kind = "fetch" /\ last.up = "ok"
     /\ ~Decodes(Target(last.key[1]), last.body))
    => ~last.failed

\* C14: two consecutive calls on one cache key are calls of one logical
\* request: the same user (ListItems), the same endpoint (Calendar).
C14_KeysDoNotCollide ==
  (prev.kind = "fetch" /\ last.kind = "fetch" /\ prev.key = last.key)
    => prev.who = last.who

\* Two consecutive calls of a paginated fetcher for one category or endpoint.
SameListing ==
  /\ prev.kind = "fetch" /\ last.kind = "fetch"
  /\ last.key[1] \in PagedFetchers
  /\ prev.key[1] = last.key[1] /\ prev.key[2] = last.key[2]

\* The batch of PagesAtOnce client pages a client page belongs to.
Batch(page) == (page - 1) \div PagesAtOnce

TotalOf(r) == totals[r.key[2]]

C21_Step ==
  /\ totals' # totals =>
       \/ last'.kind = "expire"
       \/ /\ last'.kind = "fetch" /\ last'.calls = 1 /\ last'.up = "ok"
          /\ ~last'.failed
          /\ \A c \in DOMAIN totals :
               totals'[c] # totals[c] => c = last'.key[2]
  /\ (last' # last /\ last'.kind = "fetch" /\ last'.key[1] \in PagedFetchers
        /\ last'.calls = 0) =>
       /\ totals' = totals
       /\ last'.total = IF TotalOf(last') = NoTotal THEN -1 ELSE TotalOf(last')

\* C21: the total of a listing is kept per category or endpoint, whatever the
\* page; it is written only by a call whose upstream fetch succeeded with
\* status 200; and a call served from the cached page returns the cached
\* total, or -1 when none is cached.
C21_TotalPerListing == [][C21_Step]_vars

\* A call that fetched one page stored the total, and the next call, served
\* from the cache with another page, under another key, returned that total.
C21_Witness ==
  /\ SameListing
  /\ prev.calls = 1 /\ prev.up = "ok" /\ prev.total = 7
  /\ last.calls = 0 /\ last.key # prev.key /\ last.total = 7

\* C22: a client page p >= 1 is translated, for any resultsPerPage r >= 1, to
\* the upstream page floor((p-1)*r / (r*PagesAtOnce)) + 1, the number of its
\* batch of PagesAtOnce pages.
C22_Translation ==
  /\ tpc # "panic"
  /\ tpc = "done" => tup = ((tpage - 1) \div PagesAtOnce) + 1

\* A step that is a call with isUpdateNeeded = true.
ForcedCall == last'.force /\ (last' # last \/ prev' # prev)

\* What the claim asks of a forced call: one upstream call; the fresh value
\* stored when it succeeded, the store as it was when it failed.
ForcedEffect ==
  /\ last'.calls = 1
  /\ IF last'.up = "ok"
       THEN cache' = [cache EXCEPT ![last'.key] = Entry(last'.result)]
       ELSE cache' = cache

\* C23 as stated: every call with isUpdateNeeded = true makes one upstream
\* call, stores the fresh value on success and leaves the entry on failure.
C23_ForcedRefresh == [][ForcedCall => ForcedEffect]_vars

\* C23, amended: so does every call with isUpdateNeeded = true that passes
\* the authorization check; one that does not makes no upstream call and
\* leaves the store as it was.
C23_ForcedRefreshWhenAuthorized ==
  [][ForcedCall =>
       IF last'.kind = "unauthorized"
         THEN last'.calls = 0 /\ last'.failed /\ cache' = cache
         ELSE ForcedEffect]_vars

\* A forced call found an entry, went upstream all the same and replaced the
\* entry with another value.
C23_Witness ==
  /\ last.kind = "fetch" /\ last.force
  /\ last.before.present /\ last.calls = 1 /\ last.up = "ok"
  /\ cache[last.key] = Entry(last.result)
  /\ last.before.val # last.result

(***************************************************************************)
(* Claims about WatchedShowsProgress, checked under SpecProgress.          *)
(***************************************************************************)

\* C1: the pointer a run returns for a show was computed for the
\* LastWatchedAt the show has in that run.
C1_PointerIsCurrent ==
  lastRun.done =>
    \A s \in TraktShows : lastRun.slot[s].set => lastRun.slot[s].at = lastRun.at[s]

\* The show has the same LastWatchedAt in the last two runs, and none of its
\* cache entries expired between them.
Unchanged(s) ==
  /\ prevRun.done /\ lastRun.done
  /\ lastRun.at[s] = prevRun.at[s]
  /\ s \notin lastRun.expired

ChangedShows == {s \in TraktShows : lastRun.at[s] # prevRun.at[s]}
OneChanged == prevRun.done /\ lastRun.done /\ Cardinality(ChangedShows) = 1

WithNextEpisode ==
  {s \in TraktShows :
     /\ outcome[s] # "failed"
     /\ progressCache[s].decoded
     /\ progressCache[s].next.set
     /\ progressCache[s].next.number # 0
     /\ progressCache[s].next.season # 0}

C20_Step ==
  RunJoin =>
    /\ {shows'[i].show : i \in 1 .. Len(shows')} = WithNextEpisode
    /\ \A i, j \in 1 .. Len(shows') : i < j => shows'[i].show < shows'[j].show
    /\ lastErr' = "none"

\* C20: the list a run returns holds exactly the shows whose progress has a
\* next episode with non-zero episode and season numbers, in the order of the
\* watched list, and the run returns no error for the shows it drops.
C20_ExactlyWithNextEpisode == [][C20_Step]_vars

\* A run returned the second show alone: the first was fetched and its next
\* episode is numbered 0, so it was dropped, without an error.
C20_Witness ==
  /\ ppc = "idle" /\ lastRun.done /\ lastErr = "none"
  /\ Len(shows) = 1 /\ shows[1].show = 2
  /\ lastRun.outcome[1] = "fetched"
  /\ progressCache[1].decoded /\ progressCache[1].next.set
  /\ progressCache[1].next.number = 0

\* The step is the goroutine of show s running to its end.
Finishes(s) == s \in wg /\ s \notin wg'

\* C26: the goroutine of a show leaves the show's LastWatchedAt as the cached
\* snapshot, however it ends: reuse, fetch, transport error, bad status.
C26_SnapshotAlwaysWritten ==
  [][\A s \in TraktShows :
       Finishes(s) => watchedAtCache'[s] = lastWatchedAt[s]]_vars

\* In a run a goroutine whose upstream call failed has replaced the snapshot
\* of its show by the show's LastWatchedAt.
C26_Witness ==
  \E s \in TraktShows :
    /\ ppc = "running" /\ s \notin wg /\ outcome[s] = "failed"
    /\ lastWatchedAt[s] = 2 /\ watchedAtCache[s] = 2
    /\ progressCache[s].present /\ progressCache[s].at = 1

C27_Step ==
  /\ \A s \in TraktShows :
       Finishes(s) =>
         /\ upstreamCalls'[s] <= 1
         /\ outcome'[s] = "failed" =>
              (progressCache' = progressCache /\ ~showsList'[s].set)
         /\ \A t \in TraktShows \ {s} :
              /\ showsList'[t] = showsList[t]
              /\ progressCache'[t] = progressCache[t]
              /\ watchedAtCache'[t] = watchedAtCache[t]
              /\ upstreamCalls'[t] = upstreamCalls[t]
  /\ RunJoin =>
       /\ lastErr' = "none"
       /\ \A s \in TraktShows :
            showsList[s].set <=> (\E i \in 1 .. Len(shows') : shows'[i].show = s)

\* C27: in a run at most one upstream progress call is made for a show; a
\* failed call writes no progress entry and fills no slot for its show,
\* leaves the slots and the cache entries of the other shows alone, and the
\* run returns the other shows without an error.
C27_FailureDropsOneShow == [][C27_Step]_vars

\* A run has returned the second show alone, without an error, the upstream
\* call for the first having failed.
C27_Witness ==
  /\ ppc = "idle" /\ lastRun.done /\ lastErr = "none"
  /\ lastRun.outcome[1] = "failed" /\ lastRun.calls[1] = 1
  /\ lastRun.outcome[2] = "fetched"
  /\ Len(shows) = 1 /\ shows[1].show = 2

\* C28: the watched list is asked for with a forced refresh exactly when the
\* current watched-episode activity time differs from the cached one; without
\* one, a cached list is returned with no upstream call.
C28_RefreshOnActivity ==
  alast.kind = "list" =>
    /\ alast.isRefresh <=> alast.now # alast.previous
    /\ alast.isRefresh => alast.calls = 1
    /\ (~alast.isRefresh /\ alast.before.present) =>
         (alast.calls = 0 /\ alast.shows = alast.before.val /\ ~alast.failed)

\* The activity time is the cached one and the cached list was returned with
\* no upstream call.
C28_Witness ==
  /\ alast.kind = "list" /\ alast.now = 2 /\ alast.previous = 2
  /\ ~alast.isRefresh /\ alast.calls = 0
  /\ alast.before.present /\ alast.shows = <<"s1">>

\* C29: a fan-out function starts one goroutine per item, a goroutine writes
\* no slot but the one of its own index, and when the function has returned
\* every goroutine has written its slot and ended.
C29_FanOutJoin ==
  /\ \A k \in Items : owriters[k] \subseteq {k}
  /\ \A t \in Items : otask[t] # "none" => t < oi
  /\ opc = "returned" =>
       \A t \in Items : otask[t] = "done" /\ owriters[t] = {t}

\* WatchedShowsProgress has returned, each slot written by its own goroutine.
C29_Witness ==
  /\ ofn = "WatchedShowsProgress"
  /\ opc = "returned"
  /\ \A t \in Items : otask[t] = "done" /\ owriters[t] = {t}

\* C30: when the concurrent runs have finished, the show's snapshot and the
\* show's progress in the cache are each what the run that wrote that key
\* last wrote, whole.
C30_LastWriterWins ==
  (\A r \in Runs : xpc[r] = "done") =>
    /\ xlast.snap # 0 /\ xsnap = xwrote[xlast.snap].snap
    /\ xlast.prog # 0 => xprog = xwrote[xlast.prog].prog

\* Both runs missed the cache, both called upstream and stored a progress;
\* the two keys were last written by different runs.
C30_Witness ==
  /\ \A r \in Runs : xpc[r] = "done" /\ xcalls[r] = 1 /\ xwrote[r].prog.present
  /\ xlast.snap # xlast.prog
  /\ xprog = xwrote[xlast.prog].prog

(***************************************************************************)
(* Claims about MakeRequest and the rate limiter, checked under            *)
(* SpecLimiter and SpecLimiterLive.                                        *)
(***************************************************************************)

\* C11: MakeRequest returns the transport error for a transport error,
\* ErrExceeded for 429, ErrNotFound for 404, ErrHTTP for any other non-200
\* status, and nil only for a 200.
C11_TypedErrors ==
  \A c \in Callers :
    lpc[c] = "returned" =>
      /\ status[c] = "transport" => ret[c] = "err"
      /\ status[c] = "429" => ret[c] = "ErrExceeded"
      /\ status[c] = "404" => ret[c] = "ErrNotFound"
      /\ status[c] = "500" => ret[c] = "ErrHTTP"
      /\ ret[c] = "nil" => status[c] = "200"

\* C16: an invocation of MakeRequest makes one upstream request, and one
\* answered 429 has called CoolDown when it returns ErrExceeded.
C16_CoolDownNoRetry ==
  \A c \in Callers :
    /\ requests[c] <= 1
    /\ lpc[c] = "returned" =>
         /\ requests[c] = 1
         /\ status[c] = "429" => (cooled[c] /\ ret[c] = "ErrExceeded")

\* An invocation answered 429 has returned.
C16_Witness ==
  \E c \in Callers :
    lpc[c] = "returned" /\ status[c] = "429" /\ cooled[c] /\ requests[c] = 1

\* C17: no more than burstRate functions are started inside one window, so
\* of burstRate + 1 concurrent callers one is held back until the window
\* has run out.
C17_AdmissionBound ==
  /\ windowCount <= burstRate
  /\ InFlight <= simultaneousConnections
  /\ windowLeft = 0 => windowCount = 0

\* The window is full and a caller is held back by it alone.
C17_Witness ==
  /\ windowCount = burstRate /\ windowLeft > 0
  /\ coolDownLeft = 0 /\ InFlight < simultaneousConnections
  /\ \E c \in Callers : lpc[c] = "waiting"

\* C18: while the cooldown is in force no function is started.
C18_Step ==
  \A c \in Callers :
    (lpc[c] = "waiting" /\ lpc'[c] = "running") => coolDownLeft = 0

C18_NoStartInCoolDown == [][C18_Step]_vars

\* A cooldown, and nothing else, holds a caller back.
C18_Witness ==
  /\ coolDownLeft > 0
  /\ InFlight < simultaneousConnections /\ WindowHasRoom
  /\ \E c \in Callers : lpc[c] = "waiting"

C35_Step ==
  \A c \in Callers :
    (lpc[c] = "running" /\ lpc'[c] = "returned" /\ status'[c] # "429")
      => coolDownLeft' = coolDownLeft /\ ~cooled'[c]

\* C35: an invocation of MakeRequest whose answer is anything but a 429 (a
\* 404, another status, a transport error, a 200) leaves the limiter's
\* cooldown as it was.
C35_CoolDownOnlyOn429 == [][C35_Step]_vars

\* C24: after a call of Find, GetCountries or GetLanguages whose request
\* failed (transport error, 429, 404 or another non-200 status) there is no
\* entry under the key.
C24_NoEntryAfterFailure ==
  (mlast.kind = "fetch" /\ mlast.calls = 1 /\ mlast.status # "200")
    => ~mcache[mlast.key].present

(***************************************************************************)
(* Claims about the TMDB API key check.                                     *)
(***************************************************************************)

\* C36: every HTTP request sent to TMDB is made inside rl.Call, so none is
\* sent while the limiter's cooldown is in force; the requests of the API-key
\* check included.
C36_RequestsInsideLimiter ==
  yreq # NoRequest => yreq.inCall /\ ~yreq.cooling

\* C38: when CheckAPIKey has returned, the pool holds no key whose check
\* failed, and if a key of the pool the loop started with is valid, the
\* selected key is one whose check passed.
C38_FailedKeysRemoved ==
  ypc = "done" =>
    /\ yfailed \cap Elements(apiKeys) = {}
    /\ Elements(ypool) \cap yvalid # {} => yresult /\ apiKey \in yvalid

\* C39: CheckAPIKey makes no more key checks than the pool held when the
\* loop started (checks made and passes left add up to that number), reads
\* apiKeys[index] inside the pool only, and is over once a check has passed.
C39_BoundedChecks ==
  /\ ypc # "panic"
  /\ ychecks <= Len(ypool)
  /\ ypc = "loop" =>
       /\ yindex >= 0 /\ yindex < Len(apiKeys)
       /\ ychecks + yindex + 1 = Len(ypool)
  /\ yresult => ypc = "done"

\* All the keys of the pool were checked, keys were removed on the way, and
\* the last check passed.
C39_Witness ==
  /\ ypc = "done" /\ yresult
  /\ ychecks = Len(ypool)
  /\ Len(apiKeys) < Len(ypool)

(***************************************************************************)
(* Claims about the functions that need the user's account.                 *)
(***************************************************************************)

\* A call made without authorization: cache and upstream untouched, the
\* error returned with nothing else.
C40_Step ==
  /\ ~last'.auth =>
       /\ cache' = cache /\ totals' = totals
       /\ last'.calls = 0 /\ last'.failed /\ last'.result = <<>>
  /\ ~alast'.auth =>
       /\ lcache' = lcache /\ acache' = acache
       /\ alast'.calls = 0 /\ alast'.failed /\ alast'.shows = <<>>

\* C40: WatchlistMovies, CollectionMovies, WatchlistShows, CollectionShows
\* and WatchedShowsProgress, called when the user is not authorized, return
\* the error and nothing from the cache, make no upstream call and leave the
\* cache as it was.
C40_UnauthorizedTouchesNothing == [][C40_Step]_vars

\* A call was refused while the cache held the list it would have returned.
C40_Witness ==
  \/ ~last.auth /\ last.before.present /\ last.before.val # <<>>
  \/ ~alast.auth /\ alast.before.present /\ alast.before.val # <<>>

====
